---------------------------- MODULE Spec2Model ----------------------------
(***************************************************************************)
(* Trade lifecycle engine of bnb_sniper: the Action Ledger                 *)
(* (repositories/action_repository.py), its operator-facing handlers       *)
(* (services/telegram_bot.py), the buy pipeline                            *)
(* (controllers/autobuy_controller.py), the Trade Ledger and the Position  *)
(* Snapshot (repositories/history_repository.py, monitor_repository.py)    *)
(* and the per-pair position worker with its exit policy                   *)
(* (orchestrators/monitor_orchestrator.py).                                *)
(*                                                                         *)
(* Conventions.                                                            *)
(*  - SQL NULL / Python None is NULL where a string is expected and None   *)
(*    where a number is expected.                                          *)
(*  - Prices are integers: one unit is 1e-6 BNB per token; BNB amounts are *)
(*    in 1e-6 BNB; token amounts are whole tokens (decimals = 0); gas is   *)
(*    in units of 1000 gas and gasPrice in 1e-6 BNB per 1000 gas.          *)
(*  - The fields stop_loss and trailing_stop of the exit runtime state     *)
(*    hold 100 times the value the code holds, so that                     *)
(*    buy_real * (1 - pct/100) stays an integer; every comparison is made  *)
(*    on the same scale.  Arithmetic is exact: float rounding is not       *)
(*    modelled.                                                            *)
(*  - Row timestamps (timestamp, buy_date, sell_date, updated_at) only     *)
(*    order listings and are left out; notified_at keeps NULL / set.       *)
(*  - The value objects Token and TradeSession are data plumbing outside   *)
(*    the engine and are taken to construct.  Of the token repository the  *)
(*    model keeps which pairs have a row; outside the specification of the *)
(*    supervisor and the discovery loop every pair has one.                *)
(*  - lastOp is a history variable naming the last operation called, and   *)
(*    fills a history variable listing the sales a worker got mined and    *)
(*    measured: the pair, the entry the worker was watching, the stage,    *)
(*    the units sold, the BNB received and the real buy price it had read. *)
(***************************************************************************)
EXTENDS Integers, Sequences, FiniteSets, TLC

VARIABLES
    acciones,        \* table acciones: set of rows
    meta,            \* table meta: first_buy_done = "1" as a boolean
    history,         \* table history: sequence of rows, id = index (AUTOINCREMENT)
    monitor_state,   \* table monitor_state: pair -> row
    FIRST_REAL_BUY,  \* configuration flag (environment), fixed at start
    DRY_RUN,         \* configuration flag (environment), fixed at start
    tokens,          \* table discovered_tokens: the pairs that have a token row
    quoted,          \* the last quote asked of Web3Service: its inputs and what it returned
    w3s,             \* the Web3Service instance: gas mode, endpoint, and its calls in progress
    orch,            \* the supervisor's threads seen statement by statement
    threads,         \* MonitorOrchestrator._threads: pair -> worker handle
    trail,           \* MonitorOrchestrator._trail: pair -> exit runtime state
    partial,         \* MonitorOrchestrator._partial: pair -> partial-sale accumulator
    token_balance,   \* on-chain token balance of the wallet, per pair (token units)
    fills,           \* history variable: the sales mined and measured, in order
    result,          \* value returned (or exception raised) by the last pipeline call
    effects,         \* what the last pipeline call did before returning
    lastOp           \* last operation called

vars == <<acciones, meta, history, monitor_state, FIRST_REAL_BUY, DRY_RUN, w3s, orch, tokens, quoted,
          threads, trail, partial, token_balance, fills, result, effects, lastOp>>

NULL == "NULL"

\* a missing number (a NULL numeric column, a None float or id); prices, amounts
\* and ids are positive, and the program never reads back a pnl or a bnb_amount
None == -1

Pairs == {"p1", "p2"}

Tipos == {"compra", "venta"}

Estados == {"pendiente", "aprobada", "cancelada"}

\* the exit runtime state of a pair that has none
NoTrail == [armed |-> FALSE, peak |-> None, trailing_stop |-> None, stop_loss |-> None]

\* a transaction that could not be built
NoTx == [built |-> FALSE, gas |-> None, gasPrice |-> None]

\* the inputs of a call that is not a buy attempt
NoArgs == [fuse |-> FALSE, quote |-> None, tx |-> NoTx,
           price_native |-> None, current_price |-> None]

Decision(action, reason) == [action |-> action, reason |-> reason]

\* what a step that is not an evaluation of the exit policy records of one
NoTick == [evaluated |-> FALSE, st |-> NoTrail, current |-> None, buy_real |-> None,
           decision |-> Decision(NULL, NULL)]

\* lastOp names the last operation.  pre is the estado of the pair's action
\* before a call on the Action Ledger; args are the inputs of a buy attempt;
\* tick is what a pass of a worker's loop evaluated the exit policy on (the
\* runtime state it found, the price, the real buy price) and the decision.
Called(op, pair, pre) ==
    lastOp' = [op |-> op, pair |-> pair, pre |-> pre, args |-> NoArgs, tick |-> NoTick]

CalledTick(pair, tick) ==
    lastOp' = [op |-> "tick", pair |-> pair, pre |-> NULL, args |-> NoArgs, tick |-> tick]

CalledBuy(op, pair, args) ==
    lastOp' = [op |-> op, pair |-> pair, pre |-> NULL, args |-> args, tick |-> NoTick]

NoOp == [op |-> "none", pair |-> NULL, pre |-> NULL, args |-> NoArgs, tick |-> NoTick]

\* a chain client and a supervisor that are not exercised
NoClient == [pc |-> "none"]

NoOrch == [pc |-> "none"]

\* no quote has been asked
NoQuote == [fn |-> NULL, amount_in |-> None, factory |-> FALSE, hops |-> <<>>,
            attempts |-> <<>>, slippage_percent |-> None, out |-> None]

\* what a pipeline call gave: returned with ok true or false, or raised
NoResult == [returned |-> FALSE, ok |-> FALSE, mode |-> NULL, reason |-> NULL, raised |-> NULL]

(***************************************************************************)
(* Action Ledger: repositories/action_repository.py                        *)
(***************************************************************************)
ActionRow(pair_address, tipo, estado, notified_at) ==
    [pair_address |-> pair_address, tipo |-> tipo, estado |-> estado,
     notified_at |-> notified_at]

RowsOf(acc, pair_address) == {r \in acc : r.pair_address = pair_address}

\* a plain INSERT: no ON CONFLICT clause takes care of an existing row
registrar_accion_insert_only(acc, pair_address, tipo) ==
    acc \cup {ActionRow(pair_address, tipo, "pendiente", NULL)}

\* the upsert forgets to re-arm the notification
registrar_accion_keeps_notified(acc, pair_address, tipo) ==
    IF RowsOf(acc, pair_address) # {}
    THEN {IF r.pair_address = pair_address
          THEN [r EXCEPT !.tipo = tipo, !.estado = "pendiente"]
          ELSE r : r \in acc}
    ELSE acc \cup {ActionRow(pair_address, tipo, "pendiente", NULL)}

\* INSERT ... ON CONFLICT(pair_address) DO UPDATE SET tipo, estado='pendiente', notified_at=NULL
registrar_accion(acc, pair_address, tipo) ==
    IF RowsOf(acc, pair_address) # {}
    THEN {IF r.pair_address = pair_address
          THEN [r EXCEPT !.tipo = tipo, !.estado = "pendiente", !.notified_at = NULL]
          ELSE r : r \in acc}
    ELSE acc \cup {ActionRow(pair_address, tipo, "pendiente", NULL)}

\* UPDATE acciones SET estado="aprobada" WHERE pair_address=?
autorizar_accion(acc, pair_address) ==
    {IF r.pair_address = pair_address THEN [r EXCEPT !.estado = "aprobada"] ELSE r : r \in acc}

\* UPDATE acciones SET estado="cancelada" WHERE pair_address=?
cancelar_accion(acc, pair_address) ==
    {IF r.pair_address = pair_address THEN [r EXCEPT !.estado = "cancelada"] ELSE r : r \in acc}

\* DELETE FROM acciones WHERE pair_address=?
limpiar(acc, pair_address) == {r \in acc : r.pair_address # pair_address}

\* UPDATE acciones SET notified_at=now WHERE pair_address=?
marcar_notificado(acc, pair_address) ==
    {IF r.pair_address = pair_address THEN [r EXCEPT !.notified_at = "set"] ELSE r : r \in acc}

\* SELECT estado ... fetchone(): the estado of a row of the pair, None without one
obtener_estado(acc, pair_address) ==
    IF RowsOf(acc, pair_address) = {} THEN NULL
    ELSE (CHOOSE r \in RowsOf(acc, pair_address) : TRUE).estado

obtener_tipo(acc, pair_address) ==
    IF RowsOf(acc, pair_address) = {} THEN NULL
    ELSE (CHOOSE r \in RowsOf(acc, pair_address) : TRUE).tipo

\* default LIMIT of list_pending_not_notified
PendingListLimit == 20

\* WHERE estado='pendiente' AND notified_at IS NULL ... LIMIT ?: the pairs listed
\* (every such pair while they are at most `limit`; the model has fewer pairs than that)
list_pending_not_notified(acc, limit) ==
    LET sel == {r.pair_address : r \in {x \in acc : x.estado = "pendiente" /\ x.notified_at = NULL}}
    IN  IF Cardinality(sel) <= limit THEN sel
        ELSE CHOOSE s \in SUBSET sel : Cardinality(s) = limit


\* the partial-sale accumulator of a pair that has none
NoPartial == [stage |-> None, sold_tokens |-> None, bnb_received |-> None]

(***************************************************************************)
(* Quiescent values of the state a specification does not exercise         *)
(***************************************************************************)
NoSnapshot == [present |-> FALSE, price |-> None, history_id |-> None]

\* a worker handle, and the locals hid, buy_real and current of the worker
\* between a SELL decision and the end of the sale that follows
NoThread == [alive |-> FALSE, stop_evt |-> FALSE, pc |-> "none",
             hid |-> None, buy_real |-> None, current |-> None]

InitStores ==
    /\ acciones = {}
    /\ tokens = Pairs
    /\ quoted = NoQuote
    /\ w3s = NoClient
    /\ orch = NoOrch
    /\ history = <<>>
    /\ monitor_state = [p \in Pairs |-> NoSnapshot]
    /\ result = NoResult
    /\ effects = {}
    /\ lastOp = NoOp

InitWorkers ==
    /\ threads = [p \in Pairs |-> NoThread]
    /\ trail = [p \in Pairs |-> NoTrail]
    /\ partial = [p \in Pairs |-> NoPartial]
    /\ token_balance = [p \in Pairs |-> 0]
    /\ fills = <<>>

tradeVars == <<meta, history, monitor_state, FIRST_REAL_BUY, DRY_RUN, w3s, orch, tokens, quoted, result, effects>>

workerVars == <<threads, trail, partial, token_balance, fills>>

(***************************************************************************)
(* Trade Ledger: repositories/history_repository.py                        *)
(***************************************************************************)
\* INSERT INTO history (... buy_entry_price, buy_price_with_fees, buy_date): every
\* other column is NULL; the new id is lastrowid
create_buy(hist, pair_address, buy_entry_price, buy_price_with_fees) ==
    Append(hist, [pair_address |-> pair_address,
                  buy_entry_price |-> buy_entry_price,
                  buy_price_with_fees |-> buy_price_with_fees,
                  buy_real_price |-> None, buy_amount |-> None,
                  sell_entry_price |-> None, sell_price_with_fees |-> None,
                  sell_real_price |-> None, sell_amount |-> None,
                  pnl |-> None, bnb_amount |-> None])

\* UPDATE history SET buy_real_price = ?, buy_amount = ? WHERE id = ?
set_buy_final_result(hist, history_id, buy_real_price, buy_amount) ==
    IF history_id \in DOMAIN hist
    THEN [hist EXCEPT ![history_id].buy_real_price = buy_real_price,
                      ![history_id].buy_amount = buy_amount]
    ELSE hist

\* UPDATE history SET sell_entry_price, sell_price_with_fees, sell_real_price,
\* sell_amount, sell_date, pnl, bnb_amount WHERE id = ?
finalize_sell(hist, history_id, sell_entry_price, sell_price_with_fees, sell_real_price, sell_amount, pnl, bnb_amount) ==
    IF history_id \in DOMAIN hist
    THEN [hist EXCEPT ![history_id].sell_entry_price = sell_entry_price,
                      ![history_id].sell_price_with_fees = sell_price_with_fees,
                      ![history_id].sell_real_price = sell_real_price,
                      ![history_id].sell_amount = sell_amount,
                      ![history_id].pnl = pnl,
                      ![history_id].bnb_amount = bnb_amount]
    ELSE hist

\* no row
NoRow == [pair_address |-> NULL, buy_entry_price |-> None, buy_price_with_fees |-> None,
          buy_real_price |-> None, buy_amount |-> None,
          sell_entry_price |-> None, sell_price_with_fees |-> None,
          sell_real_price |-> None, sell_amount |-> None,
          pnl |-> None, bnb_amount |-> None]

\* SELECT * FROM history WHERE id = ?
get_by_id(hist, history_id) ==
    IF history_id \in DOMAIN hist THEN hist[history_id] ELSE NoRow

(***************************************************************************)
(* Position Snapshot: repositories/monitor_repository.py                   *)
(***************************************************************************)
\* upsert of the live price; history_id is kept (COALESCE sub-select on insert,
\* not in the ON CONFLICT update list)
save_state(ms, pair_address, price) ==
    [ms EXCEPT ![pair_address] =
        [present |-> TRUE, price |-> price, history_id |-> ms[pair_address].history_id]]

\* INSERT ... ON CONFLICT(pair_address) DO UPDATE SET history_id = excluded.history_id
set_history_id(ms, pair_address, history_id) ==
    [ms EXCEPT ![pair_address] =
        [present |-> TRUE, price |-> ms[pair_address].price, history_id |-> history_id]]

\* SELECT history_id ...: None without a row or with a NULL link
get_history_id(ms, pair_address) ==
    IF ms[pair_address].present THEN ms[pair_address].history_id ELSE None

\* the link survives the close
clear_history_id_keeps_link(ms, pair_address) == ms

\* UPDATE monitor_state SET history_id = NULL WHERE pair_address = ?
clear_history_id(ms, pair_address) ==
    IF ms[pair_address].present
    THEN [ms EXCEPT ![pair_address].history_id = None]
    ELSE ms

(***************************************************************************)
(* Buy pipeline: controllers/autobuy_controller.py                         *)
(***************************************************************************)
PNL_THRESHOLD_PERCENT == 2

\* MAX_FEE_BNB = 0.02 BNB, in 1e-6 BNB
MAX_FEE_BNB == 20000

\* at most this many Trade Ledger rows are created in a run of the model
MaxHistory == 1

\* the entries of the Trade Ledger in the specification of repeated cycles
MaxCycles == 2

\* the length the Trade Ledger is explored up to: buys are not taken further
HistoryBound == IF orch.pc = "cycles" THEN MaxCycles ELSE MaxHistory

\* meta.get("first_buy_done", "0") == "1"
first_buy_already_done == meta

\* the fuse check that opens propose_buy, confirm_pending_buy and procesar_token
FuseBlocks_never == FALSE

FuseBlocks == FIRST_REAL_BUY /\ first_buy_already_done

\* (gas_price_wei or 0) * (gas_used or 0) / 1e18; a transaction built under the
\* modern fee model has no gasPrice key
estimate_fee_bnb(gas_used, gas_price) ==
    (IF gas_price = None THEN 0 ELSE gas_price) * (IF gas_used = None THEN 0 ELSE gas_used)

\* price_native + buy_fee + transfer_fee + fee_total / max(expected_out_tokens, 1e-18)
expected_unit_cost(price_native, buy_fee, transfer_fee, fee_total, expected_out) ==
    price_native + buy_fee + transfer_fee + (fee_total \div expected_out)

\* pnl_percent < PNL_THRESHOLD_PERCENT with
\* pnl_percent = (expected_unit_cost - current) / max(current, 1e-18) * 100
pnl_below_threshold(unit_cost, current_price) ==
    (unit_cost - current_price) * 100 < PNL_THRESHOLD_PERCENT * current_price

\* the rule of propose_buy that sends a buy to the operator
needs_approval(unit_cost, current_price, fee_total) ==
    pnl_below_threshold(unit_cost, current_price) \/ fee_total > MAX_FEE_BNB

gate_reason(unit_cost, current_price) ==
    IF pnl_below_threshold(unit_cost, current_price) THEN "PNL_BELOW_THRESHOLD" ELSE "FEE_HIGH"

Ok(mode) == [returned |-> TRUE, ok |-> TRUE, mode |-> mode, reason |-> NULL, raised |-> NULL]

Fail(reason) == [returned |-> TRUE, ok |-> FALSE, mode |-> NULL, reason |-> reason, raised |-> NULL]

Raised(exc) == [returned |-> FALSE, ok |-> FALSE, mode |-> NULL, reason |-> NULL, raised |-> exc]

\* the transaction built for one buy attempt with its gas fields (gas in units of
\* 1000, gasPrice in 1e-6 BNB per 1000 gas), or NoTx when
\* build_swap_exact_eth_for_tokens raises
Txs == {[built |-> TRUE, gas |-> 200, gasPrice |-> 50],
        [built |-> TRUE, gas |-> 200, gasPrice |-> 100],
        [built |-> TRUE, gas |-> 300, gasPrice |-> 100],
        [built |-> TRUE, gas |-> 200, gasPrice |-> None]}

NativePrices == {900, 1000}

CurrentPrices == {1000}

\* the entry is created and the pair is not linked to it
start_buy_immediate_unlinked(pair, price_native, unit_cost) ==
    /\ Len(history) < HistoryBound
    /\ history' = create_buy(history, pair, price_native, unit_cost)
    /\ UNCHANGED monitor_state

\* _start_buy_immediate: create_buy, then set_history_id to the new row
start_buy_immediate(pair, price_native, unit_cost) ==
    /\ Len(history) < HistoryBound
    /\ history' = create_buy(history, pair, price_native, unit_cost)
    /\ monitor_state' = set_history_id(monitor_state, pair, Len(history) + 1)

\* propose_buy .  registrar_accion is called with the keywords token_address and
\* motivo, which ActionRepository.registrar_accion(pair_address, tipo) does not
\* take: the call raises TypeError before anything is written, and log_function
\* re-raises it.
propose_buy_body(pair, quote, tx, price_native, current_price) ==
    IF FuseBlocks
    THEN /\ result' = Fail("FIRST_BUY_FUSE_BLOCKED")
         /\ effects' = {}
         /\ UNCHANGED <<acciones, history, monitor_state>>
    ELSE IF quote <= 0
    THEN /\ result' = Fail("amountOutMin invalido")
         /\ effects' = {"quote"}
         /\ UNCHANGED <<acciones, history, monitor_state>>
    ELSE IF ~tx.built
    THEN /\ result' = Raised("ValueError")
         /\ effects' = {"quote", "build"}
         /\ UNCHANGED <<acciones, history, monitor_state>>
    ELSE LET fee_total == estimate_fee_bnb(tx.gas, tx.gasPrice)
             unit_cost == expected_unit_cost(price_native, 0, 0, fee_total, quote)
         IN  IF needs_approval(unit_cost, current_price, fee_total)
             THEN /\ result' = Raised("TypeError")
                  /\ effects' = {"quote", "build"}
                  /\ UNCHANGED <<acciones, history, monitor_state>>
             ELSE /\ start_buy_immediate(pair, price_native, unit_cost)
                  /\ result' = Ok("IMMEDIATE")
                  /\ effects' = {"quote", "build", "create_buy", "set_history_id"}
                  /\ UNCHANGED acciones

propose_buy(pair, quote, tx, price_native, current_price) ==
    /\ propose_buy_body(pair, quote, tx, price_native, current_price)
    /\ CalledBuy("propose_buy", pair,
              [fuse |-> FuseBlocks, quote |-> quote, tx |-> tx,
               price_native |-> price_native, current_price |-> current_price])
    /\ UNCHANGED <<meta, FIRST_REAL_BUY, DRY_RUN, w3s, orch, tokens, quoted, workerVars>>

\* procesar_token: its own fuse check, then propose_buy with
\* current_price = price_native = token.price_native
procesar_token(pair, quote, tx, price_native) ==
    /\ IF FuseBlocks
       THEN /\ result' = Fail("FIRST_BUY_FUSE_BLOCKED")
            /\ effects' = {}
            /\ UNCHANGED <<acciones, history, monitor_state>>
       ELSE propose_buy_body(pair, quote, tx, price_native, price_native)
    /\ CalledBuy("procesar_token", pair,
              [fuse |-> FuseBlocks, quote |-> quote, tx |-> tx,
               price_native |-> price_native, current_price |-> price_native])
    /\ UNCHANGED <<meta, FIRST_REAL_BUY, DRY_RUN, w3s, orch, tokens, quoted, workerVars>>

\* confirm_pending_buy: fuse, estado must be aprobada, fresh quote and build, then
\* _start_buy_immediate; the action row is left as it is
confirm_pending_buy_body(pair, quote, tx, price_native) ==
    IF FuseBlocks
    THEN /\ result' = Fail("FIRST_BUY_FUSE_BLOCKED")
         /\ effects' = {}
         /\ UNCHANGED <<history, monitor_state>>
    ELSE IF obtener_estado(acciones, pair) # "aprobada"
    THEN /\ result' = Fail("accion no aprobada")
         /\ effects' = {}
         /\ UNCHANGED <<history, monitor_state>>
    ELSE IF quote <= 0
    THEN /\ result' = Fail("amountOutMin invalido tras confirmacion")
         /\ effects' = {"quote"}
         /\ UNCHANGED <<history, monitor_state>>
    ELSE IF ~tx.built
    THEN /\ result' = Raised("ValueError")
         /\ effects' = {"quote", "build"}
         /\ UNCHANGED <<history, monitor_state>>
    ELSE /\ start_buy_immediate(pair, price_native,
              expected_unit_cost(price_native, 0, 0,
                                 estimate_fee_bnb(tx.gas, tx.gasPrice), quote))
         /\ result' = Ok("IMMEDIATE")
         /\ effects' = {"quote", "build", "create_buy", "set_history_id"}

confirm_pending_buy(pair, quote, tx, price_native) ==
    /\ confirm_pending_buy_body(pair, quote, tx, price_native)
    /\ CalledBuy("confirm_pending_buy", pair,
              [fuse |-> FuseBlocks, quote |-> quote, tx |-> tx,
               price_native |-> price_native, current_price |-> price_native])
    /\ UNCHANGED <<acciones, meta, FIRST_REAL_BUY, DRY_RUN, w3s, orch, tokens, quoted, workerVars>>

\* record_buy_receipt: writes the real buy fields on the linked entry.  The
\* tokens bought reach the wallet with the transaction the receipt is of.
record_buy_receipt(pair, buy_real_price, buy_amount) ==
    LET history_id == get_history_id(monitor_state, pair)
    IN  /\ IF history_id = None
           THEN /\ result' = Fail("history_id no encontrado en monitor")
                /\ UNCHANGED <<history, token_balance>>
           ELSE /\ history' = set_buy_final_result(history, history_id, buy_real_price, buy_amount)
                /\ token_balance' = [token_balance EXCEPT ![pair] = buy_amount]
                /\ result' = Ok(NULL)
        /\ effects' = {}
        /\ Called("record_buy_receipt", pair, NULL)
        /\ UNCHANGED <<acciones, meta, monitor_state, FIRST_REAL_BUY, DRY_RUN, w3s, orch, tokens, quoted,
                       threads, trail, partial, fills>>

\* what waiting for the buy receipt can give: wait_for_receipt raises (timeout),
\* the receipt has no Transfer to the wallet, or the wallet received tokens
ReceiptOutcomes == {"raises", "no_transfer", "transfer"}

\* every receipt is taken to carry the amount
receipt_has_no_amount_never(outcome) == FALSE

\* amount_received_tokens is None or amount_received_tokens <= 0
receipt_has_no_amount(outcome) == outcome = "no_transfer"

\* await_and_record_buy_receipt: the only place that trips the fuse
await_and_record_buy_receipt(pair, outcome, buy_real_price, buy_amount) ==
    LET history_id == get_history_id(monitor_state, pair)
    IN  /\ IF outcome = "raises"
           THEN /\ result' = Raised("TimeExhausted")
                /\ UNCHANGED <<history, token_balance, meta>>
           ELSE IF receipt_has_no_amount(outcome)
           THEN /\ result' = Fail("Transfer no encontrado")
                /\ UNCHANGED <<history, token_balance, meta>>
           ELSE IF history_id = None
           THEN /\ result' = Fail("history_id no encontrado en monitor")
                /\ token_balance' = [token_balance EXCEPT ![pair] = buy_amount]
                /\ UNCHANGED <<history, meta>>
           ELSE /\ history' = set_buy_final_result(history, history_id, buy_real_price, buy_amount)
                /\ token_balance' = [token_balance EXCEPT ![pair] = buy_amount]
                /\ meta' = IF FIRST_REAL_BUY /\ ~DRY_RUN THEN TRUE ELSE meta
                /\ result' = Ok(NULL)
        /\ effects' = {}
        /\ Called("await_and_record_buy_receipt", pair, NULL)
        /\ UNCHANGED <<acciones, monitor_state, FIRST_REAL_BUY, DRY_RUN, w3s, orch, tokens, quoted,
                       threads, trail, partial, fills>>

(***************************************************************************)
(* Closing a trade through the controllers                                 *)
(***************************************************************************)
\* ((sell_real_price - buy_real_price) / max(buy_real_price, 1e-18)) * amount * 100
pnl_percent(sell_real_price, buy_real_price, amount) ==
    ((sell_real_price - buy_real_price) * amount * 100) \div buy_real_price

\* the guard of record_sell_result, of AutoBuyController.finalize_sell and of the
\* worker before it evaluates the exit policy: h exists and has its real buy price
buy_is_recorded_any(h) == h # NoRow

buy_is_recorded(h) == h # NoRow /\ h.buy_real_price # None

close_linked_entry(pair, sell_entry_price, sell_price_with_fees, sell_real_price, sell_amount, bnb_amount) ==
    LET history_id == get_history_id(monitor_state, pair)
        h == get_by_id(history, history_id)
    IN  IF history_id = None
        THEN /\ result' = Fail("history_id no encontrado en monitor")
             /\ UNCHANGED <<history, monitor_state>>
        ELSE IF ~buy_is_recorded(h)
        THEN /\ result' = Fail("compra real no registrada todavia")
             /\ UNCHANGED <<history, monitor_state>>
        ELSE /\ history' = finalize_sell(history, history_id, sell_entry_price,
                               sell_price_with_fees, sell_real_price, sell_amount,
                               pnl_percent(sell_real_price, h.buy_real_price, sell_amount),
                               bnb_amount)
             /\ monitor_state' = clear_history_id(monitor_state, pair)
             /\ result' = Ok(NULL)

\* AutoSellController.record_sell_result
record_sell_result(pair, sell_real_price, sell_amount, bnb_amount) ==
    /\ close_linked_entry(pair, None, None, sell_real_price, sell_amount, bnb_amount)
    /\ effects' = {}
    /\ Called("record_sell_result", pair, NULL)
    /\ UNCHANGED <<acciones, meta, FIRST_REAL_BUY, DRY_RUN, w3s, orch, tokens, quoted, workerVars>>

\* AutoBuyController.finalize_sell
controller_finalize_sell(pair, sell_real_price, sell_amount, bnb_amount) ==
    /\ close_linked_entry(pair, None, None, sell_real_price, sell_amount, bnb_amount)
    /\ effects' = {}
    /\ Called("finalize_sell", pair, NULL)
    /\ UNCHANGED <<acciones, meta, FIRST_REAL_BUY, DRY_RUN, w3s, orch, tokens, quoted, workerVars>>

(***************************************************************************)
(* Exit policy: orchestrators/monitor_orchestrator.py                      *)
(***************************************************************************)
TAKE_PROFIT_PCT == 5

TRAILING_GAP_PCT == 3

STOP_LOSS_PCT == 7

\* SELL_PERCENT_1 = 0.6 and SELL_PERCENT_2 = 1.0, in percent
SELL_PERCENT_1 == 60

SELL_PERCENT_2 == 100

MIN_SELL_TOKENS == 0

MIN_SELL_VALUE_BNB == 0

\* x * (1 - TRAILING_GAP_PCT/100), times 100
TrailingStopFor(x) == x * (100 - TRAILING_GAP_PCT)

\* _init_trailing
init_trailing(buy_real) ==
    [armed |-> TAKE_PROFIT_PCT <= 0,
     peak |-> buy_real,
     trailing_stop |-> TrailingStopFor(buy_real),
     stop_loss |-> buy_real * (100 - STOP_LOSS_PCT)]

\* the runtime state _update_trailing works on: the stored one, or a fresh one
state_or_init(st, buy_real) == IF st = NoTrail THEN init_trailing(buy_real) ELSE st

\* current <= st["stop_loss"]
StopLossHit(st, current) == current * 100 <= st.stop_loss

\* current >= buy_real * (1 + TAKE_PROFIT_PCT/100)
ArmLevelReached(current, buy_real) == current * 100 >= buy_real * (100 + TAKE_PROFIT_PCT)

\* the new-peak branch: peak and trailing_stop follow the price
NewPeakState_from_buy(st, current, buy_real) ==
    [st EXCEPT !.peak = current, !.trailing_stop = TrailingStopFor(buy_real)]

NewPeakState(st, current, buy_real) ==
    [st EXCEPT !.peak = current, !.trailing_stop = TrailingStopFor(current)]

\* current <= st["trailing_stop"], evaluated only on an armed state
TrailingHit(st, current) == st.armed /\ current * 100 <= st.trailing_stop

\* _update_trailing: the new runtime state and the decision
update_trailing(st0, current, buy_real) ==
    LET st == state_or_init(st0, buy_real)
    IN  IF StopLossHit(st, current)
        THEN [st |-> st, decision |-> Decision("SELL", "STOP_LOSS")]
        ELSE IF ~st.armed /\ ArmLevelReached(current, buy_real)
        THEN [st |-> [st EXCEPT !.armed = TRUE, !.peak = current,
                                !.trailing_stop = TrailingStopFor(current)],
              decision |-> Decision("HOLD", "ARMED_TRAILING")]
        ELSE IF st.armed /\ current > st.peak
        THEN [st |-> NewPeakState(st, current, buy_real),
              decision |-> Decision("HOLD", "NEW_PEAK")]
        ELSE IF TrailingHit(st, current)
        THEN [st |-> st, decision |-> Decision("SELL", "TRAILING_HIT")]
        ELSE [st |-> st, decision |-> Decision("HOLD", "NONE")]

\* _determine_sell_amount
determine_sell_amount(balance, current_price, stage) ==
    LET percent == IF stage = 0 THEN SELL_PERCENT_1 ELSE SELL_PERCENT_2
        amount == (balance * percent) \div 100
    IN  IF balance <= 0 THEN 0
        ELSE IF amount < MIN_SELL_TOKENS THEN 0
        ELSE IF amount * current_price < MIN_SELL_VALUE_BNB THEN 0
        ELSE amount

(***************************************************************************)
(* The per-pair position worker: start, stop, and the loop of              *)
(* _monitor_worker.  One pass of the loop is two steps: WorkerTick reads   *)
(* the link, the price and the entry and evaluates the exit policy;        *)
(* WorkerSell is the sale that follows a SELL decision.  Controller calls   *)
(* of other threads can fall between the two.                               *)
(***************************************************************************)
NewPartial == [stage |-> 0, sold_tokens |-> 0, bnb_received |-> 0]

\* start_thread_for_pair; the worker's first statement creates the partial
\* accumulator when the pair has none
start_worker(p) ==
    IF threads[p].alive
    THEN UNCHANGED <<threads, partial>>
    ELSE /\ threads' = [threads EXCEPT ![p] =
                [NoThread EXCEPT !.alive = TRUE, !.pc = "loop"]]
         /\ partial' = [partial EXCEPT ![p] = IF @ = NoPartial THEN NewPartial ELSE @]

start_thread_for_pair(p) ==
    /\ start_worker(p)
    /\ Called("start_thread_for_pair", p, NULL)
    /\ UNCHANGED <<acciones, tradeVars, trail, token_balance, fills>>

\* stop_thread_for_pair: sets the stop event of the pair's handle, if any
stop_thread_for_pair(p) ==
    /\ threads' = IF threads[p].pc = "none" THEN threads
                  ELSE [threads EXCEPT ![p].stop_evt = TRUE]
    /\ Called("stop_thread_for_pair", p, NULL)
    /\ UNCHANGED <<acciones, tradeVars, trail, partial, token_balance, fills>>

WorkerExits(p) ==
    threads' = [threads EXCEPT ![p] = [NoThread EXCEPT !.pc = "done", !.stop_evt = threads[p].stop_evt]]

WorkerLoops(p) ==
    threads' = [threads EXCEPT ![p] = [NoThread EXCEPT !.alive = TRUE, !.pc = "loop",
                                                       !.stop_evt = threads[p].stop_evt]]

\* one pass of the loop up to the decision, price being what the market reports
WorkerTick(p, price) ==
    LET t == threads[p]
        hid == get_history_id(monitor_state, p)
        h == get_by_id(history, hid)
    IN  /\ t.alive /\ t.pc = "loop"
        /\ IF t.stop_evt \/ hid = None
           THEN /\ WorkerExits(p)
                /\ CalledTick(p, NoTick)
                /\ UNCHANGED <<monitor_state, trail>>
           ELSE /\ monitor_state' = save_state(monitor_state, p, price)
                /\ IF ~buy_is_recorded(h)
                   THEN /\ CalledTick(p, NoTick)
                        /\ UNCHANGED <<threads, trail>>
                   ELSE LET r == update_trailing(trail[p], price, h.buy_real_price)
                        IN  /\ trail' = [trail EXCEPT ![p] = r.st]
                            /\ IF r.decision.action = "SELL"
                               THEN threads' = [threads EXCEPT ![p] =
                                       [t EXCEPT !.pc = "sell", !.hid = hid,
                                                 !.buy_real = h.buy_real_price,
                                                 !.current = price]]
                               ELSE UNCHANGED threads
                            /\ CalledTick(p, [evaluated |-> TRUE,
                                              st |-> state_or_init(trail[p], h.buy_real_price),
                                              current |-> price,
                                              buy_real |-> h.buy_real_price,
                                              decision |-> r.decision])
        /\ UNCHANGED <<acciones, meta, history, FIRST_REAL_BUY, DRY_RUN, w3s, orch, tokens, quoted, result, effects,
                       partial, token_balance, fills>>

\* what the chain does with one sale: the quote is unusable (prepare_sell not
\* ok), a call raises before the sale is broadcast, the sale is broadcast and
\* waiting for its receipt raises, or the sale is mined and measured
SellOutcomes == {"prepare_fails", "raises_before_send", "raises_after_send", "mined"}

\* the first partial sale re-arms the policy on the remainder
rearm_not(st, current) == st

rearm(st, current) ==
    [st EXCEPT !.armed = TRUE, !.peak = current, !.trailing_stop = TrailingStopFor(current)]

\* the totals hold the last fill only
accumulate_last_fill(acc, sell_amount_tokens, bnb_bruto_recibido) ==
    [acc EXCEPT !.sold_tokens = sell_amount_tokens, !.bnb_received = bnb_bruto_recibido]

\* self._partial[pair]["sold_tokens"] += sell_amount_tokens;
\* self._partial[pair]["bnb_received"] += meas["bnb_bruto_recibido"]
accumulate(acc, sell_amount_tokens, bnb_bruto_recibido) ==
    [acc EXCEPT !.sold_tokens = @ + sell_amount_tokens,
                !.bnb_received = @ + bnb_bruto_recibido]

\* sell_real_price_agg = total_bnb / total_tokens, to the unit of a price
sell_real_price_agg(total_bnb, total_tokens) == total_bnb \div total_tokens

\* pnl_total = ((sell_real_price_agg - buy_real) / max(buy_real, 1e-18)) *
\* total_tokens * 100, the division total_bnb / total_tokens being a float
\* division: (sell_real_price_agg - buy_real) * total_tokens is
\* total_bnb - buy_real * total_tokens
pnl_total(total_bnb, total_tokens, buy_real) ==
    ((total_bnb - buy_real * total_tokens) * 100) \div buy_real

\* bnb_amount = (sell_real_price_agg - buy_real) * total_tokens
bnb_amount_total(total_bnb, total_tokens, buy_real) ==
    total_bnb - buy_real * total_tokens

\* the entry of fills for a sale mined and measured
Fill(p, t, stage, units, native) ==
    [pair |-> p, hid |-> t.hid, stage |-> stage, units |-> units, native |-> native,
     price |-> t.current, buy_real |-> t.buy_real]

\* the sale goes on whatever its calls answered
sale_is_skipped_on_amount_only(amount, outcome) == amount <= 0

\* the sale is given up only when a call of it fails
sale_is_skipped_on_failure_only(amount, outcome) ==
    outcome \in {"prepare_fails", "raises_before_send"}

\* the passes that end before anything is sent: sell_amount_tokens <= 0,
\* prepare_sell not ok, or an exception before the sale is broadcast
sale_is_skipped(amount, outcome) ==
    amount <= 0 \/ outcome \in {"prepare_fails", "raises_before_send"}

\* the sale after a SELL decision, and the close after the second sale
WorkerSell(p, outcome) ==
    LET t == threads[p]
        stage == partial[p].stage
        amount == determine_sell_amount(token_balance[p], t.current, stage)
        acc == accumulate(partial[p], amount, amount * t.current)
        total_tokens == acc.sold_tokens
        total_bnb == acc.bnb_received
        agg == sell_real_price_agg(total_bnb, total_tokens)
    IN  /\ t.alive /\ t.pc = "sell"
        /\ IF sale_is_skipped(amount, outcome)
           THEN /\ WorkerLoops(p)
                /\ Called("sell_skipped", p, NULL)
                /\ UNCHANGED <<history, monitor_state, trail, partial, token_balance, fills>>
           ELSE IF outcome = "raises_after_send"
           THEN /\ WorkerLoops(p)
                /\ token_balance' = [token_balance EXCEPT ![p] = @ - amount]
                /\ Called("sell_sent", p, NULL)
                /\ UNCHANGED <<history, monitor_state, trail, partial, fills>>
           ELSE /\ token_balance' = [token_balance EXCEPT ![p] = @ - amount]
                /\ fills' = Append(fills, Fill(p, t, stage, amount, amount * t.current))
                /\ Called("sell_sent", p, NULL)
                /\ IF stage = 0
                   THEN /\ partial' = [partial EXCEPT ![p] = [acc EXCEPT !.stage = 1]]
                        /\ trail' = [trail EXCEPT ![p] = rearm(@, t.current)]
                        /\ WorkerLoops(p)
                        /\ UNCHANGED <<history, monitor_state>>
                   ELSE /\ history' = finalize_sell(history, t.hid, t.current, agg, agg,
                                         total_tokens,
                                         pnl_total(total_bnb, total_tokens, t.buy_real),
                                         bnb_amount_total(total_bnb, total_tokens, t.buy_real))
                        /\ monitor_state' = clear_history_id(monitor_state, p)
                        /\ partial' = [partial EXCEPT ![p] = NoPartial]
                        /\ trail' = [trail EXCEPT ![p] = NoTrail]
                        /\ WorkerExits(p)
        /\ UNCHANGED <<acciones, meta, FIRST_REAL_BUY, DRY_RUN, w3s, orch, tokens, quoted, result, effects>>

(***************************************************************************)
(* SpecLedger: the repository's methods called by any caller, in any order *)
(***************************************************************************)
RepoRegistrar(p, t) ==
    /\ acciones' = registrar_accion(acciones, p, t)
    /\ Called("registrar_accion", p, obtener_estado(acciones, p))
    /\ UNCHANGED <<tradeVars, workerVars>>

RepoAutorizar(p) ==
    /\ acciones' = autorizar_accion(acciones, p)
    /\ Called("autorizar_accion", p, obtener_estado(acciones, p))
    /\ UNCHANGED <<tradeVars, workerVars>>

RepoCancelar(p) ==
    /\ acciones' = cancelar_accion(acciones, p)
    /\ Called("cancelar_accion", p, obtener_estado(acciones, p))
    /\ UNCHANGED <<tradeVars, workerVars>>

RepoLimpiar(p) ==
    /\ acciones' = limpiar(acciones, p)
    /\ Called("limpiar", p, obtener_estado(acciones, p))
    /\ UNCHANGED <<tradeVars, workerVars>>

RepoMarcarNotificado(p) ==
    /\ acciones' = marcar_notificado(acciones, p)
    /\ Called("marcar_notificado", p, obtener_estado(acciones, p))
    /\ UNCHANGED <<tradeVars, workerVars>>

InitLedger ==
    /\ InitStores
    /\ InitWorkers
    /\ meta = FALSE
    /\ FIRST_REAL_BUY = FALSE
    /\ DRY_RUN = TRUE

NextLedger ==
    \/ \E p \in Pairs, t \in Tipos : RepoRegistrar(p, t)
    \/ \E p \in Pairs : RepoAutorizar(p)
    \/ \E p \in Pairs : RepoCancelar(p)
    \/ \E p \in Pairs : RepoLimpiar(p)
    \/ \E p \in Pairs : RepoMarcarNotificado(p)

SpecLedger == InitLedger /\ [][NextLedger]_vars

(***************************************************************************)
(* SpecBot: the operator's handlers of services/telegram_bot.py and        *)
(* TelegramController.registrar_accion.  A handler runs to completion on   *)
(* the bot's event loop: it has no await between its read and its write.   *)
(***************************************************************************)
\* TelegramController.registrar_accion: ValueError for a tipo outside _VALID_TYPES
ControllerRegistrar(p, t) ==
    /\ acciones' = IF t \in Tipos THEN registrar_accion(acciones, p, t) ELSE acciones
    /\ Called(IF t \in Tipos THEN "registrar_accion" ELSE "registrar_accion_invalid",
              p, obtener_estado(acciones, p))
    /\ UNCHANGED <<tradeVars, workerVars>>

\* /comprar <pair>: authorises only a pending compra
handle_comprar(p) ==
    /\ acciones' = IF obtener_estado(acciones, p) # "pendiente" \/ obtener_tipo(acciones, p) # "compra"
                   THEN acciones
                   ELSE autorizar_accion(acciones, p)
    /\ Called("handle_comprar", p, obtener_estado(acciones, p))
    /\ UNCHANGED <<tradeVars, workerVars>>

\* /vender <pair>: authorises only a pending venta
handle_vender(p) ==
    /\ acciones' = IF obtener_estado(acciones, p) # "pendiente" \/ obtener_tipo(acciones, p) # "venta"
                   THEN acciones
                   ELSE autorizar_accion(acciones, p)
    /\ Called("handle_vender", p, obtener_estado(acciones, p))
    /\ UNCHANGED <<tradeVars, workerVars>>

\* /cancelar <pair>: cancels whatever action is registered
handle_cancelar(p) ==
    /\ acciones' = IF obtener_estado(acciones, p) = NULL
                   THEN acciones
                   ELSE cancelar_accion(acciones, p)
    /\ Called("handle_cancelar", p, obtener_estado(acciones, p))
    /\ UNCHANGED <<tradeVars, workerVars>>

\* inline buttons act|approve|<pair> and act|cancel|<pair>
handle_callback(action, p) ==
    /\ acciones' = CASE action = "approve" /\ obtener_estado(acciones, p) = "pendiente"
                          -> autorizar_accion(acciones, p)
                     [] action = "cancel" /\ obtener_estado(acciones, p) # NULL
                          -> cancelar_accion(acciones, p)
                     [] OTHER -> acciones
    /\ Called(IF action = "approve" THEN "handle_callback_approve" ELSE "handle_callback_cancel",
              p, obtener_estado(acciones, p))
    /\ UNCHANGED <<tradeVars, workerVars>>

NextBot ==
    \/ \E p \in Pairs, t \in Tipos \cup {"swap"} : ControllerRegistrar(p, t)
    \/ \E p \in Pairs : handle_comprar(p)
    \/ \E p \in Pairs : handle_vender(p)
    \/ \E p \in Pairs : handle_cancelar(p)
    \/ \E p \in Pairs, a \in {"approve", "cancel"} : handle_callback(a, p)

SpecBot == InitLedger /\ [][NextBot]_vars

(***************************************************************************)
(* SpecBuy: the buy pipeline.  Actions are registered and answered by the  *)
(* operator, buys are proposed, processed and confirmed for any pair with  *)
(* any answer of the chain, and receipts are recorded.  The deployment's   *)
(* flags FIRST_REAL_BUY and DRY_RUN are fixed at start to any of their     *)
(* values.                                                                 *)
(***************************************************************************)
\* real buy prices and amounts a receipt can report
BuyRealPrices == {1000}

BuyAmounts == {1000}

\* a transaction whose fee keeps a buy at price 1000 within parameters
TxWithin == [built |-> TRUE, gas |-> 200, gasPrice |-> 100]

\* the answers of the chain to one buy attempt, as far as the attempt asks: no
\* usable quote; a quote and a failing build; a quote, a transaction and a price
BuyInputs ==
    {[quote |-> 0, tx |-> NoTx, price_native |-> 1000],
     [quote |-> 1000, tx |-> NoTx, price_native |-> 1000]}
    \cup {[quote |-> 1000, tx |-> tx, price_native |-> n] : tx \in Txs, n \in NativePrices}

ConfirmInputs ==
    {i \in BuyInputs : i.price_native = 1000 /\ i.tx \in {NoTx, TxWithin}}

InitBuy ==
    /\ InitStores /\ InitWorkers
    /\ meta = FALSE
    /\ FIRST_REAL_BUY \in BOOLEAN
    /\ DRY_RUN \in BOOLEAN

NextBuy ==
    \/ \E p \in Pairs : ControllerRegistrar(p, "compra")
    \/ \E p \in Pairs : handle_comprar(p)
    \/ \E p \in Pairs : handle_cancelar(p)
    \/ \E p \in Pairs, i \in BuyInputs, c \in CurrentPrices :
          propose_buy(p, i.quote, i.tx, i.price_native, c)
    \/ \E p \in Pairs, i \in ConfirmInputs : procesar_token(p, i.quote, i.tx, i.price_native)
    \/ \E p \in Pairs, i \in ConfirmInputs : confirm_pending_buy(p, i.quote, i.tx, i.price_native)
    \/ \E p \in Pairs, b \in BuyRealPrices, a \in BuyAmounts : record_buy_receipt(p, b, a)
    \/ \E p \in Pairs, o \in ReceiptOutcomes, b \in BuyRealPrices, a \in BuyAmounts :
          await_and_record_buy_receipt(p, o, b, a)

SpecBuy == InitBuy /\ [][NextBuy]_vars

(***************************************************************************)
(* Spec: the life of the positions of one watched pair.  Buys within       *)
(* parameters open entries, receipts record the real buy, the pair's       *)
(* worker is started and stopped and runs its loop against any of the      *)
(* prices, and an entry is closed by the worker or through a controller.   *)
(***************************************************************************)
Watched == {"p1"}

\* prices the market reports to a worker of Spec
TickPrices == {920, 1060}

\* what a caller passes as the real sell price and the BNB amount of a close
ClosePrices == {1100}

CloseBnbs == {100000}

Init ==
    /\ InitStores /\ InitWorkers
    /\ meta = FALSE
    /\ FIRST_REAL_BUY = FALSE
    /\ DRY_RUN = TRUE

Next ==
    \/ \E p \in Watched, i \in ConfirmInputs :
          propose_buy(p, i.quote, i.tx, i.price_native, 1000)
    \/ \E p \in Watched, b \in BuyRealPrices, a \in BuyAmounts : record_buy_receipt(p, b, a)
    \/ \E p \in Watched, o \in ReceiptOutcomes, b \in BuyRealPrices, a \in BuyAmounts :
          await_and_record_buy_receipt(p, o, b, a)
    \/ \E p \in Watched, s \in ClosePrices, a \in BuyAmounts, b \in CloseBnbs :
          record_sell_result(p, s, a, b)
    \/ \E p \in Watched, s \in ClosePrices, a \in BuyAmounts, b \in CloseBnbs :
          controller_finalize_sell(p, s, a, b)
    \/ \E p \in Watched : start_thread_for_pair(p)
    \/ \E p \in Watched : stop_thread_for_pair(p)
    \/ \E p \in Watched, price \in TickPrices : WorkerTick(p, price)
    \/ \E p \in Watched, o \in SellOutcomes : WorkerSell(p, o)

Spec == Init /\ [][Next]_vars

(***************************************************************************)
(* SpecExit: the exit policy at work.  It starts where Spec is after a buy *)
(* within parameters has opened the watched pair's entry; receipts record  *)
(* the real buy price, and the pair's worker, started and stopped at any   *)
(* time, runs its loop against any sequence of the prices of ExitPrices.   *)
(***************************************************************************)
\* real buy prices a receipt can report: the stop-loss floors are 930 and 1116,
\* the arm levels 1050 and 1260
ExitBuyPrices == {1000, 1200}

\* 1067 is the trailing stop of the peak 1100
ExitPrices == {920, 930, 1000, 1050, 1060, 1100}

\* the state propose_buy("p1", 1000, TxWithin, 1000, 1000) leaves Init in
InitExit ==
    /\ acciones = {}
    /\ tokens = Pairs
    /\ quoted = NoQuote
    /\ w3s = NoClient
    /\ orch = NoOrch
    /\ meta = FALSE /\ FIRST_REAL_BUY = FALSE /\ DRY_RUN = TRUE
    /\ history = create_buy(<<>>, "p1", 1000,
                     expected_unit_cost(1000, 0, 0,
                         estimate_fee_bnb(TxWithin.gas, TxWithin.gasPrice), 1000))
    /\ monitor_state = set_history_id([p \in Pairs |-> NoSnapshot], "p1", 1)
    /\ InitWorkers
    /\ result = Ok("IMMEDIATE")
    /\ effects = {"quote", "build", "create_buy", "set_history_id"}
    /\ lastOp = [op |-> "propose_buy", pair |-> "p1", pre |-> NULL, tick |-> NoTick,
                 args |-> [fuse |-> FALSE, quote |-> 1000, tx |-> TxWithin,
                           price_native |-> 1000, current_price |-> 1000]]

NextExit ==
    \/ \E p \in Watched, b \in ExitBuyPrices, a \in BuyAmounts : record_buy_receipt(p, b, a)
    \/ \E p \in Watched : start_thread_for_pair(p)
    \/ \E p \in Watched : stop_thread_for_pair(p)
    \/ \E p \in Watched, price \in ExitPrices : WorkerTick(p, price)
    \/ \E p \in Watched, o \in SellOutcomes : WorkerSell(p, o)

SpecExit == InitExit /\ [][NextExit]_vars

(***************************************************************************)
(* SpecRising: SpecExit fed a monotone non-decreasing sequence of prices:  *)
(* the market never reports less than the price the worker saved last in   *)
(* the Position Snapshot.                                                  *)
(***************************************************************************)
NotBelowLast(p, price) ==
    monitor_state[p].price = None \/ price >= monitor_state[p].price

NextRising ==
    \/ \E p \in Watched, b \in ExitBuyPrices, a \in BuyAmounts : record_buy_receipt(p, b, a)
    \/ \E p \in Watched : start_thread_for_pair(p)
    \/ \E p \in Watched : stop_thread_for_pair(p)
    \/ \E p \in Watched, price \in ExitPrices : NotBelowLast(p, price) /\ WorkerTick(p, price)
    \/ \E p \in Watched, o \in SellOutcomes : WorkerSell(p, o)

SpecRising == InitExit /\ [][NextRising]_vars

(***************************************************************************)
(* The supervisor loop of orchestrators/monitor_orchestrator.py and the    *)
(* discovery loop of orchestrators/discovery_orchestrator.py.              *)
(***************************************************************************)
\* the public methods of class ActionRepository
ActionRepositoryMethods ==
    {"registrar_accion", "autorizar_accion", "cancelar_accion", "obtener_estado",
     "obtener_tipo", "limpiar", "list_all", "list_pending_not_notified", "marcar_notificado"}

\* _list_action_pairs_safe: self.action_repo.list_pairs() inside try/except;
\* the attribute lookup of a method the repository does not have raises
\* AttributeError, and the except clause returns []
list_action_pairs_safe(acc) ==
    IF "list_pairs" \in ActionRepositoryMethods THEN {r.pair_address : r \in acc} ELSE {}

\* _handle_authorized: nothing without a token row; else confirm_pending_buy at
\* the row's price and, when it returns ok, start_thread_for_pair
handle_authorized(pair, quote, tx, price_native) ==
    IF pair \notin tokens
    THEN UNCHANGED <<history, monitor_state, result, effects, threads, partial>>
    ELSE /\ confirm_pending_buy_body(pair, quote, tx, price_native)
         /\ IF result'.returned /\ result'.ok
            THEN start_worker(pair)
            ELSE UNCHANGED <<threads, partial>>

\* _handle_canceled
handle_canceled(pair) == acciones' = limpiar(acciones, pair)

\* _digest_actions, one listed pair to a step; a pass over an empty list does
\* nothing
digest_actions(quote, tx, price_native) ==
    IF list_action_pairs_safe(acciones) = {}
    THEN /\ Called("run_loop", NULL, NULL)
         /\ UNCHANGED <<acciones, history, monitor_state, result, effects, threads, partial>>
    ELSE \E pair \in list_action_pairs_safe(acciones) :
            LET estado == obtener_estado(acciones, pair)
                tipo == obtener_tipo(acciones, pair)
            IN  IF estado = "aprobada" /\ tipo = "compra"
                THEN /\ handle_authorized(pair, quote, tx, price_native)
                     /\ Called("digest_authorized", pair, estado)
                     /\ UNCHANGED acciones
                ELSE IF estado = "cancelada"
                THEN /\ handle_canceled(pair)
                     /\ Called("digest_canceled", pair, estado)
                     /\ UNCHANGED <<history, monitor_state, result, effects, threads, partial>>
                ELSE /\ Called("run_loop", pair, estado)
                     /\ UNCHANGED <<acciones, history, monitor_state, result, effects,
                                    threads, partial>>

\* one pass of _run_loop: _spawn_threads_for_open_trades is `pass`, then
\* _digest_actions with what the chain answers to a confirmation
run_loop(quote, tx, price_native) ==
    /\ digest_actions(quote, tx, price_native)
    /\ UNCHANGED <<meta, FIRST_REAL_BUY, DRY_RUN, w3s, orch, tokens, quoted, trail, token_balance, fills>>

supervisor_poll == \E i \in ConfirmInputs : run_loop(i.quote, i.tx, i.price_native)

\* the action of a pair outside the parameters is approved as well
discover_once_approves_all(pair, dentro) ==
    /\ IF pair \in tokens
       THEN UNCHANGED <<tokens, acciones>>
       ELSE /\ tokens' = tokens \cup {pair}
            /\ acciones' = autorizar_accion(registrar_accion(acciones, pair, "compra"), pair)
    /\ Called(IF dentro THEN "discover_once_within" ELSE "discover_once_outside",
              pair, obtener_estado(acciones, pair))
    /\ UNCHANGED <<meta, history, monitor_state, FIRST_REAL_BUY, DRY_RUN, w3s, orch, quoted, result,
                   effects, workerVars>>

\* _discover_once for one pair the search returned: a pair with a token row is
\* skipped; else the row is saved and, within parameters, the action is
\* registered and approved at once.  For a token outside the parameters
\* self.tg.solicitar_accion is called, a method TelegramService does not have:
\* the AttributeError is caught by the loop's except and no action is written.
discover_once(pair, dentro) ==
    /\ IF pair \in tokens
       THEN UNCHANGED <<tokens, acciones>>
       ELSE /\ tokens' = tokens \cup {pair}
            /\ acciones' = IF dentro
                           THEN autorizar_accion(registrar_accion(acciones, pair, "compra"), pair)
                           ELSE acciones
    /\ Called(IF dentro THEN "discover_once_within" ELSE "discover_once_outside",
              pair, obtener_estado(acciones, pair))
    /\ UNCHANGED <<meta, history, monitor_state, FIRST_REAL_BUY, DRY_RUN, w3s, orch, quoted, result,
                   effects, workerVars>>

(***************************************************************************)
(* SpecSupervisor: the Action Ledger between its writers.  The discovery   *)
(* loop finds pairs, the operator is asked and answers through the bot,    *)
(* the supervisor polls, and buys are processed and confirmed.             *)
(* SpecSupervisorFair adds that the supervisor's loop keeps polling: its   *)
(* thread sleeps poll_seconds between two passes and never ends.           *)
(***************************************************************************)
InitSupervisor ==
    /\ acciones = {}
    /\ tokens = {}
    /\ quoted = NoQuote
    /\ w3s = NoClient
    /\ orch = NoOrch
    /\ history = <<>>
    /\ monitor_state = [p \in Pairs |-> NoSnapshot]
    /\ result = NoResult
    /\ effects = {}
    /\ lastOp = NoOp
    /\ InitWorkers
    /\ meta = FALSE
    /\ FIRST_REAL_BUY = FALSE
    /\ DRY_RUN = TRUE

NextSupervisor ==
    \/ \E p \in Pairs, d \in BOOLEAN : discover_once(p, d)
    \/ \E p \in Pairs : ControllerRegistrar(p, "compra")
    \/ \E p \in Pairs : handle_comprar(p)
    \/ \E p \in Pairs : handle_cancelar(p)
    \/ \E p \in Pairs, a \in {"approve", "cancel"} : handle_callback(a, p)
    \/ \E p \in Pairs, i \in ConfirmInputs : procesar_token(p, i.quote, i.tx, i.price_native)
    \/ \E p \in Pairs, i \in ConfirmInputs : confirm_pending_buy(p, i.quote, i.tx, i.price_native)
    \/ supervisor_poll

SpecSupervisor == InitSupervisor /\ [][NextSupervisor]_vars

SpecSupervisorFair == SpecSupervisor /\ WF_vars(supervisor_poll)

(***************************************************************************)
(* Quotes: services/web3_service.py.  An amount is in raw units; a hop of  *)
(* a path is "pool" when factory.getPair gives a pair, "none" when it      *)
(* gives the zero address and "error" when the call fails; an attempt of   *)
(* router.getAmountsOut gives the final amount of the path or fails (a     *)
(* revert or a transport error).                                           *)
(***************************************************************************)
\* RPC_RETRIES
RETRY_RPC_TIMES == 3

\* DEFAULT_SLIPPAGE, in percent
DEFAULT_SLIPPAGE == 3

Answer(final) == [ok |-> TRUE, final |-> final]

Failure == [ok |-> FALSE, final |-> None]

\* _rpc_call: the first attempt of `retries` that does not raise gives the
\* value; when all have raised the last exception is propagated
rpc_call(attempts, retries) ==
    LET good == {i \in 1..retries : i <= Len(attempts) /\ attempts[i].ok}
    IN  IF good = {} THEN Failure
        ELSE attempts[CHOOSE i \in good : \A j \in good : i <= j]

\* _pair_exists: True without a factory; False when getPair fails
pair_exists(factory, hop) == ~factory \/ hop = "pool"

\* _path_pairs_exist over the hops of a path (a path of n addresses has n-1)
path_pairs_exist(factory, hops) ==
    /\ Len(hops) + 1 >= 2
    /\ \A i \in 1..Len(hops) : pair_exists(factory, hops[i])

Zeros(n) == [i \in 1..n |-> 0]

\* get_amounts_out: one amount per address of the path, the amount in first and
\* the final amount last; zeros for an amount in that is not positive, for a
\* path with a missing pool and for a router call that raised
get_amounts_out(amount_in, factory, hops, attempts) ==
    LET n == Len(hops) + 1
        amounts == rpc_call(attempts, RETRY_RPC_TIMES)
    IN  IF amount_in = None \/ amount_in <= 0 THEN Zeros(n)
        ELSE IF ~path_pairs_exist(factory, hops) THEN Zeros(n)
        ELSE IF ~amounts.ok THEN Zeros(n)
        ELSE [i \in 1..n |-> IF i = 1 THEN amount_in ELSE amounts.final]

\* int(x / 100) of Python: truncation towards zero
int_percent(x) == IF x >= 0 THEN x \div 100 ELSE -((-x) \div 100)

\* the slippage is added to the amount
get_amount_out_min_adds_slippage(amount_in, factory, hops, attempts, slippage_percent) ==
    LET slippage == IF slippage_percent = None THEN DEFAULT_SLIPPAGE ELSE slippage_percent
        amts == get_amounts_out(amount_in, factory, hops, attempts)
    IN  int_percent(amts[Len(amts)] * 100 + slippage)

\* get_amount_out_min: int(amts[-1] * (1 - slippage / 100)), 0 when the final
\* amount is not positive
get_amount_out_min(amount_in, factory, hops, attempts, slippage_percent) ==
    LET slippage == IF slippage_percent = None THEN DEFAULT_SLIPPAGE ELSE slippage_percent
        amts == get_amounts_out(amount_in, factory, hops, attempts)
    IN  IF amts = <<>> \/ amts[Len(amts)] <= 0 THEN 0
        ELSE int_percent(amts[Len(amts)] * (100 - slippage))

\* get_amount_out_min_token_to_bnb: the same over the path [token, WBNB]
get_amount_out_min_token_to_bnb(amount_in, factory, hop, attempts, slippage_percent) ==
    LET slippage == IF slippage_percent = None THEN DEFAULT_SLIPPAGE ELSE slippage_percent
        amts == get_amounts_out(amount_in, factory, <<hop>>, attempts)
    IN  IF amts = <<>> \/ amts[Len(amts)] <= 0 THEN 0
        ELSE int_percent(amts[Len(amts)] * (100 - slippage))

\* _preview_amount_out_min: the quote of a buy, over the path [WBNB, token] at
\* the default slippage
preview_amount_out_min(amount_in, factory, hop, attempts) ==
    get_amount_out_min(amount_in, factory, <<hop>>, attempts, None)

Quoted(fn, amount_in, factory, hops, attempts, slippage_percent, out) ==
    [fn |-> fn, amount_in |-> amount_in, factory |-> factory, hops |-> hops,
     attempts |-> attempts, slippage_percent |-> slippage_percent, out |-> out]

\* a call of get_amount_out_min by any caller
QuoteOut(amount_in, factory, hops, attempts, slippage_percent) ==
    /\ quoted' = Quoted("get_amount_out_min", amount_in, factory, hops, attempts,
                        slippage_percent,
                        get_amount_out_min(amount_in, factory, hops, attempts, slippage_percent))
    /\ Called("get_amount_out_min", NULL, NULL)
    /\ UNCHANGED <<acciones, meta, history, monitor_state, FIRST_REAL_BUY, DRY_RUN, w3s, orch, tokens,
                   result, effects, workerVars>>

\* a call of get_amount_out_min_token_to_bnb by any caller
QuoteTokenToBnb(amount_in, factory, hop, attempts, slippage_percent) ==
    /\ quoted' = Quoted("get_amount_out_min_token_to_bnb", amount_in, factory, <<hop>>,
                        attempts, slippage_percent,
                        get_amount_out_min_token_to_bnb(amount_in, factory, hop, attempts,
                                                        slippage_percent))
    /\ Called("get_amount_out_min_token_to_bnb", NULL, NULL)
    /\ UNCHANGED <<acciones, meta, history, monitor_state, FIRST_REAL_BUY, DRY_RUN, w3s, orch, tokens,
                   result, effects, workerVars>>

\* the sale is built whatever the quote
prepare_sell_unchecked(pair, quote, builds) ==
    /\ IF ~builds
       THEN /\ result' = Raised("ValueError")
            /\ effects' = {"quote", "allowance", "build"}
       ELSE /\ result' = Ok(NULL)
            /\ effects' = {"quote", "allowance", "build"}
    /\ CalledBuy("prepare_sell", pair, [NoArgs EXCEPT !.quote = quote])
    /\ UNCHANGED <<acciones, meta, history, monitor_state, FIRST_REAL_BUY, DRY_RUN, w3s, orch, tokens,
                   quoted, workerVars>>

\* prepare_sell: the quote of the sale; when it is positive the allowance is
\* read, an approve is built if it is short, and the sale is built.  A build
\* that fails raises.
prepare_sell(pair, quote, builds) ==
    /\ IF quote <= 0
       THEN /\ result' = Fail("amountOutMin invalido para venta")
            /\ effects' = {"quote"}
       ELSE IF ~builds
       THEN /\ result' = Raised("ValueError")
            /\ effects' = {"quote", "allowance", "build"}
       ELSE /\ result' = Ok(NULL)
            /\ effects' = {"quote", "allowance", "build"}
    /\ CalledBuy("prepare_sell", pair, [NoArgs EXCEPT !.quote = quote])
    /\ UNCHANGED <<acciones, meta, history, monitor_state, FIRST_REAL_BUY, DRY_RUN, w3s, orch, tokens,
                   quoted, workerVars>>

(***************************************************************************)
(* SpecQuote: quotes asked with any amount, over any path, of a chain that *)
(* answers in any way.  SpecQuotedCalls: the controller calls that begin   *)
(* with a quote, fed the quote the chain's answer gives.                   *)
(***************************************************************************)
AmountsIn == {None, 0, 1, 1000}

PathHops == {<<>>, <<"pool">>, <<"none">>, <<"error">>, <<"pool", "pool">>, <<"pool", "none">>}

\* the attempts of one router call: all fail, one succeeds after failures, the
\* first succeeds; with a final amount that is zero, tiny or large
RouterAttempts ==
    {<<Failure, Failure, Failure>>}
    \cup {<<Answer(f), Failure, Failure>> : f \in {0, 1, 1000}}
    \cup {<<Failure, Failure, Answer(1000)>>}

Slippages == {None, 0, 3, 100}

\* the chain's answers to the quote of one controller call
ChainAnswers ==
    {[amount_in |-> a, factory |-> TRUE, hop |-> h, attempts |-> r] :
        a \in {0, 1000}, h \in {"pool", "none"}, r \in RouterAttempts}

NextQuote ==
    \/ \E a \in AmountsIn, f \in BOOLEAN, h \in PathHops, r \in RouterAttempts, s \in Slippages :
          QuoteOut(a, f, h, r, s)
    \/ \E a \in AmountsIn, f \in BOOLEAN, h \in {"pool", "none", "error"},
          r \in RouterAttempts, s \in Slippages :
          QuoteTokenToBnb(a, f, h, r, s)

SpecQuote == InitLedger /\ [][NextQuote]_vars

NextQuotedCalls ==
    \/ \E p \in Pairs : ControllerRegistrar(p, "compra")
    \/ \E p \in Pairs : handle_comprar(p)
    \/ \E p \in Pairs, c \in ChainAnswers, tx \in {NoTx, TxWithin} :
          propose_buy(p, preview_amount_out_min(c.amount_in, c.factory, c.hop, c.attempts),
                      tx, 1000, 1000)
    \/ \E p \in Pairs, c \in ChainAnswers, tx \in {NoTx, TxWithin} :
          confirm_pending_buy(p, preview_amount_out_min(c.amount_in, c.factory, c.hop, c.attempts),
                              tx, 1000)
    \/ \E p \in Pairs, c \in ChainAnswers, b \in BOOLEAN :
          prepare_sell(p, get_amount_out_min_token_to_bnb(c.amount_in, c.factory, c.hop,
                                                          c.attempts, DEFAULT_SLIPPAGE), b)

SpecQuotedCalls == InitLedger /\ [][NextQuotedCalls]_vars

(***************************************************************************)
(* Transactions: the gas strategy and the builders of                      *)
(* services/web3_service.py.  A field a transaction does not have is None. *)
(* Gas prices are in 0.1 gwei, gas limits in units of 1000 gas.  An answer *)
(* of the node to one wrapped call is a value, or a failure when the call  *)
(* has raised at every attempt.                                            *)
(***************************************************************************)
\* PRIORITY_FEE_GWEI (1.5 gwei)
PRIORITY_FEE_GWEI == 15

\* MAX_FEE_MULTIPLIER
MAX_FEE_MULTIPLIER == 2

\* GAS_LIMIT_MULTIPLIER (1.20), in percent
GAS_LIMIT_MULTIPLIER == 120

\* DEFAULT_SWAP_GAS_LIMIT
DEFAULT_SWAP_GAS_LIMIT == 350

\* SKIP_GAS_EST_IN_DRY
SKIP_GAS_EST_IN_DRY == TRUE

Value(v) == [ok |-> TRUE, value |-> v]

Fails == [ok |-> FALSE, value |-> None]

\* a transaction as a dict of the fields the gas strategy and the nonce are
\* about; amount_out_min is the first argument of a swap's call, None when the
\* transaction is not looked at as a swap
Tx(nonce, type, gasPrice, maxFeePerGas, maxPriorityFeePerGas, gas) ==
    [built |-> TRUE, nonce |-> nonce, type |-> type, gasPrice |-> gasPrice,
     maxFeePerGas |-> maxFeePerGas, maxPriorityFeePerGas |-> maxPriorityFeePerGas,
     gas |-> gas, amount_out_min |-> None]

\* a builder that raised
NoBuiltTx ==
    [built |-> FALSE, nonce |-> None, type |-> None, gasPrice |-> None,
     maxFeePerGas |-> None, maxPriorityFeePerGas |-> None, gas |-> None,
     amount_out_min |-> None]

\* _detect_gas_mode: the GAS_MODE override, else 1559 when the latest block has
\* a baseFeePerGas, else legacy
detect_gas_mode(GAS_MODE, latest) ==
    IF GAS_MODE \in {"legacy", "1559"} THEN GAS_MODE
    ELSE IF latest.ok /\ latest.value # None THEN "1559"
    ELSE "legacy"

\* _legacy_gas_price: the override when positive, else eth.gas_price, None when
\* that call fails
legacy_gas_price(GAS_PRICE_WEI_OVERRIDE, gas_price) ==
    IF GAS_PRICE_WEI_OVERRIDE > 0 THEN GAS_PRICE_WEI_OVERRIDE
    ELSE IF gas_price.ok THEN gas_price.value
    ELSE None

\* _apply_gas_fields: pops gasPrice, maxFeePerGas and maxPriorityFeePerGas, then
\* sets the fields of the active mode.  In mode 1559 the base fee is the latest
\* block's baseFeePerGas or, when that is missing or the block cannot be read,
\* eth.gas_price (raising when that fails too).  In legacy mode gasPrice is set
\* only when _legacy_gas_price gives a price that is not None and not 0.
apply_gas_fields(tx, gas_mode, GAS_PRICE_WEI_OVERRIDE, latest, gas_price, max_priority) ==
    LET clean == [tx EXCEPT !.gasPrice = None, !.maxFeePerGas = None,
                            !.maxPriorityFeePerGas = None]
        has_base == latest.ok /\ latest.value # None /\ latest.value # 0
        base_fee == IF has_base THEN latest.value ELSE gas_price.value
        priority == IF max_priority.ok THEN max_priority.value ELSE PRIORITY_FEE_GWEI
        legacy == legacy_gas_price(GAS_PRICE_WEI_OVERRIDE, gas_price)
    IN  IF gas_mode = "1559"
        THEN IF ~has_base /\ ~gas_price.ok THEN NoBuiltTx
             ELSE [clean EXCEPT !.type = 2,
                                !.maxPriorityFeePerGas = priority,
                                !.maxFeePerGas = base_fee * MAX_FEE_MULTIPLIER + priority]
        ELSE IF legacy # None /\ legacy # 0
             THEN [clean EXCEPT !.type = 0, !.gasPrice = legacy]
             ELSE [clean EXCEPT !.type = 0]

\* the end of every builder: the default gas limit in a dry run that skips the
\* estimate, else estimate_gas times GAS_LIMIT_MULTIPLIER; a failed estimate raises
with_gas_limit(tx, dry_run, estimate) ==
    IF ~tx.built THEN NoBuiltTx
    ELSE IF dry_run /\ SKIP_GAS_EST_IN_DRY THEN [tx EXCEPT !.gas = DEFAULT_SWAP_GAS_LIMIT]
    ELSE IF ~estimate.ok THEN NoBuiltTx
    ELSE [tx EXCEPT !.gas = (estimate.value * GAS_LIMIT_MULTIPLIER) \div 100]

\* build_approve and build_swap_exact_tokens_for_eth: RuntimeError without an
\* account; build_transaction with the nonce eth.get_transaction_count gives
\* (raw is what it returns), _apply_gas_fields, the gas limit
build_approve(account, raw, c, dry_run, a) ==
    IF ~account \/ ~a.count.ok THEN NoBuiltTx
    ELSE with_gas_limit(apply_gas_fields([raw EXCEPT !.nonce = a.count.value], c.gas_mode,
                                         c.GAS_PRICE_WEI_OVERRIDE, a.latest, a.gas_price,
                                         a.max_priority),
                        dry_run, a.estimate)

build_swap_exact_tokens_for_eth(account, raw, c, dry_run, a) ==
    IF ~account \/ ~a.count.ok THEN NoBuiltTx
    ELSE with_gas_limit(apply_gas_fields([raw EXCEPT !.nonce = a.count.value], c.gas_mode,
                                         c.GAS_PRICE_WEI_OVERRIDE, a.latest, a.gas_price,
                                         a.max_priority),
                        dry_run, a.estimate)

\* tx0: the swap built again with amountOutMin 0, the nonce of the first
\* transaction, and its own pass through _apply_gas_fields
relaxed_copy(raw, tx, c, a) ==
    apply_gas_fields([raw EXCEPT !.amount_out_min = IF @ = None THEN None ELSE 0,
                                 !.nonce = tx.nonce],
                     c.gas_mode, c.GAS_PRICE_WEI_OVERRIDE, a.latest, a.gas_price, a.max_priority)

\* the relaxed copy is what gets the limit and is returned
returned_swap_relaxed(tx, tx0) == tx0

\* tx["gas"] = ...; return tx: the limit goes on the transaction built first
returned_swap(tx, tx0) == tx

\* the estimations build_swap_exact_eth_for_tokens asks of the node, in order:
\* none in a dry run that skips them, estimate_gas(tx), and estimate_gas(tx0)
\* in the except of the first
swap_estimations(dry_run, a) ==
    IF dry_run /\ SKIP_GAS_EST_IN_DRY THEN <<>>
    ELSE IF a.estimate.ok THEN <<"estimate_gas">>
    ELSE <<"estimate_gas", "estimate_gas_relaxed">>

\* build_swap_exact_eth_for_tokens: also ValueError without a pool; when the
\* estimate fails the gas is estimated once more on a relaxed copy of the
\* transaction, and the limit is set on the transaction built first
build_swap_exact_eth_for_tokens(account, pool, raw, c, dry_run, a) ==
    LET tx == apply_gas_fields([raw EXCEPT !.nonce = a.count.value], c.gas_mode,
                               c.GAS_PRICE_WEI_OVERRIDE, a.latest, a.gas_price, a.max_priority)
        tx0 == relaxed_copy(raw, tx, c, a)
    IN  IF ~account \/ ~pool \/ ~a.count.ok THEN NoBuiltTx
        ELSE IF (dry_run /\ SKIP_GAS_EST_IN_DRY) \/ ~tx.built \/ a.estimate.ok
        THEN with_gas_limit(tx, dry_run, a.estimate)
        ELSE IF ~tx0.built THEN NoBuiltTx
        ELSE with_gas_limit(returned_swap(tx, tx0), dry_run, a.estimate_relaxed)

Builders == {"build_swap_exact_eth_for_tokens", "build_swap_exact_tokens_for_eth", "build_approve"}

BuiltBy(builder, account, pool, raw, c, dry_run, a) ==
    CASE builder = "build_approve" -> build_approve(account, raw, c, dry_run, a)
      [] builder = "build_swap_exact_tokens_for_eth" ->
             build_swap_exact_tokens_for_eth(account, raw, c, dry_run, a)
      [] OTHER -> build_swap_exact_eth_for_tokens(account, pool, raw, c, dry_run, a)

\* a call of a builder by any caller
Build(builder, account, pool, raw, a) ==
    /\ w3s.pc \in {"ready", "built"}
    /\ w3s' = [w3s EXCEPT !.pc = "built", !.builder = builder, !.raw = raw,
                          !.tx = BuiltBy(builder, account, pool, raw, w3s, DRY_RUN, a)]
    /\ Called(builder, NULL, NULL)
    /\ UNCHANGED <<acciones, meta, history, monitor_state, FIRST_REAL_BUY, DRY_RUN, tokens,
                   quoted, orch, result, effects, workerVars>>

(***************************************************************************)
(* SpecGas: a client whose gas mode was detected at construction, under    *)
(* any setting of GAS_MODE and GAS_PRICE_WEI, builds transactions of every *)
(* kind against a node that answers in any way.                            *)
(***************************************************************************)
\* what build_transaction returns before the gas strategy runs: web3 may have
\* filled in the fee fields of either model
RawTxs ==
    {Tx(None, None, g, m, m, None) : g \in {None, 40}, m \in {None, 70}}

LatestAnswers == {Fails, Value(None), Value(50)}

GasPriceAnswers == {Fails, Value(0), Value(50)}

NodeAnswers ==
    {[count |-> Value(7), latest |-> l, gas_price |-> g, max_priority |-> p,
      estimate |-> e, estimate_relaxed |-> r] :
        l \in LatestAnswers, g \in GasPriceAnswers, p \in {Fails, Value(10)},
        e \in {Fails, Value(200)}, r \in {Fails, Value(200)}}

GasModeSettings == {"auto", "legacy", "1559"}

\* Web3Service.__init__ as far as the gas strategy goes
InitClient ==
    w3s \in {[pc |-> "ready", gas_mode |-> detect_gas_mode(g, l), GAS_PRICE_WEI_OVERRIDE |-> o,
              builder |-> NULL, raw |-> NoBuiltTx, tx |-> NoBuiltTx] :
                 g \in GasModeSettings, l \in LatestAnswers, o \in {0, 60}}

InitGas ==
    /\ InitClient
    /\ acciones = {}
    /\ tokens = Pairs
    /\ quoted = NoQuote
    /\ orch = NoOrch
    /\ history = <<>>
    /\ monitor_state = [p \in Pairs |-> NoSnapshot]
    /\ result = NoResult
    /\ effects = {}
    /\ lastOp = NoOp
    /\ InitWorkers
    /\ meta = FALSE
    /\ FIRST_REAL_BUY = FALSE
    /\ DRY_RUN \in BOOLEAN

NextGas ==
    \E b \in Builders, account \in BOOLEAN, pool \in BOOLEAN, raw \in RawTxs, a \in NodeAnswers :
        Build(b, account, pool, raw, a)

SpecGas == InitGas /\ [][NextGas]_vars

(***************************************************************************)
(* The retry wrapper _rpc_call, attempt by attempt.  One step is one pass  *)
(* of its for loop: the wrapped call and, when it raises, the rotation of  *)
(* the endpoint and the back-off sleep.  Endpoints are numbered from 0.    *)
(***************************************************************************)
\* the endpoint index is left where it is
next_rpc_idx_stays(current_rpc_idx, n_urls) == current_rpc_idx

\* _rotate_and_reconnect: self._current_rpc_idx = (self._current_rpc_idx + 1) % len(self._rpc_urls)
next_rpc_idx(current_rpc_idx, n_urls) == (current_rpc_idx + 1) % n_urls

\* _rpc_call is entered: the for loop has `retries` passes to make, and with
\* none to make the RuntimeError after the loop is raised at once
RpcBegin(retries) ==
    /\ w3s.pc \in {"idle", "returned", "raised"}
    /\ w3s' = [w3s EXCEPT !.pc = IF retries >= 1 THEN "calling" ELSE "raised",
                          !.retries = retries, !.attempt = 1, !.calls = 0,
                          !.outcomes = <<>>, !.out = Fails]
    /\ Called("_rpc_call", NULL, NULL)
    /\ UNCHANGED <<acciones, meta, history, monitor_state, FIRST_REAL_BUY, DRY_RUN, tokens,
                   quoted, orch, result, effects, workerVars>>

\* one pass: fn() returns and _rpc_call returns its value; or fn() raises, the
\* index moves to the next endpoint, the client reconnects to it when it
\* answers (a failure to connect is logged and the old connection is kept),
\* and after the last pass the last exception is raised
RpcAttempt(outcome, connects) ==
    /\ w3s.pc = "calling"
    /\ w3s' = IF outcome.ok
              THEN [w3s EXCEPT !.pc = "returned", !.calls = @ + 1,
                               !.outcomes = Append(@, outcome), !.out = outcome]
              ELSE [w3s EXCEPT !.pc = IF w3s.attempt >= w3s.retries THEN "raised" ELSE "calling",
                               !.calls = @ + 1, !.attempt = @ + 1,
                               !.outcomes = Append(@, outcome),
                               !.current_rpc_idx = next_rpc_idx(@, w3s.n_urls),
                               !.active_rpc = IF connects
                                              THEN next_rpc_idx(w3s.current_rpc_idx, w3s.n_urls)
                                              ELSE @]
    /\ Called("_rpc_call_attempt", NULL, NULL)
    /\ UNCHANGED <<acciones, meta, history, monitor_state, FIRST_REAL_BUY, DRY_RUN, tokens,
                   quoted, orch, result, effects, workerVars>>

rpc_attempt == \E o \in {Fails, Value(1)}, c \in BOOLEAN : RpcAttempt(o, c)

(***************************************************************************)
(* SpecRpc: a client with one to MaxUrls endpoints makes wrapped calls,    *)
(* one after the other, with any number of passes up to RPC_RETRIES,       *)
(* against a node that fails or answers at each attempt.  SpecRpcFair: a   *)
(* pass that has been started is finished (the thread in _rpc_call runs).  *)
(***************************************************************************)
MaxUrls == 3

\* _connect_first_ok leaves the index on the first endpoint that answered
InitRpc ==
    /\ w3s \in {[pc |-> "idle", n_urls |-> n, current_rpc_idx |-> i, active_rpc |-> i,
                 retries |-> 0, attempt |-> 1, calls |-> 0, outcomes |-> <<>>, out |-> Fails] :
                    n \in 1..MaxUrls, i \in 0..(MaxUrls - 1)}
    /\ w3s.current_rpc_idx < w3s.n_urls
    /\ acciones = {}
    /\ tokens = Pairs
    /\ quoted = NoQuote
    /\ orch = NoOrch
    /\ history = <<>>
    /\ monitor_state = [p \in Pairs |-> NoSnapshot]
    /\ result = NoResult
    /\ effects = {}
    /\ lastOp = NoOp
    /\ InitWorkers
    /\ meta = FALSE
    /\ FIRST_REAL_BUY = FALSE
    /\ DRY_RUN = TRUE

NextRpc ==
    \/ \E r \in 0..RETRY_RPC_TIMES : RpcBegin(r)
    \/ rpc_attempt

SpecRpc == InitRpc /\ [][NextRpc]_vars

SpecRpcFair == SpecRpc /\ WF_vars(rpc_attempt)

(***************************************************************************)
(* Claims on the Action Ledger                                             *)
(***************************************************************************)
\* C2: the Action Ledger holds at most one record per pair identifier, hence at
\* most one pending action per pair, after any sequence of repository calls.
C2_OneRowPerPair ==
    \A p \in Pairs :
        /\ Cardinality(RowsOf(acciones, p)) <= 1
        /\ Cardinality({r \in RowsOf(acciones, p) : r.estado = "pendiente"}) <= 1

\* a registrar_accion call has just hit a pair that already had an approved action,
\* while the other pair holds an action too
C2_Witness ==
    /\ lastOp.op = "registrar_accion"
    /\ lastOp.pre = "aprobada"
    /\ \A p \in Pairs : RowsOf(acciones, p) # {}

\* C3 (as claimed): an action's estado changes only pendiente -> aprobada or
\* pendiente -> cancelada; out of aprobada or cancelada only a registrar_accion
\* call changes it.
C3_OneWayTransitions ==
    [][\A p \in Pairs :
          (/\ obtener_estado(acciones, p) # NULL
           /\ obtener_estado(acciones', p) # NULL
           /\ obtener_estado(acciones', p) # obtener_estado(acciones, p))
          => \/ /\ obtener_estado(acciones, p) = "pendiente"
                /\ obtener_estado(acciones', p) \in {"aprobada", "cancelada"}
             \/ /\ lastOp'.op = "registrar_accion"
                /\ lastOp'.pair = p]_vars

\* C4: registrar_accion on a pair in any estado leaves exactly one row for it,
\* pendiente with notified_at NULL, listed by list_pending_not_notified; a
\* marcar_notificado call takes it off that list.
C4_RegistrarRearms ==
    /\ lastOp.op = "registrar_accion" =>
          /\ Cardinality(RowsOf(acciones, lastOp.pair)) = 1
          /\ \A r \in RowsOf(acciones, lastOp.pair) :
                r.estado = "pendiente" /\ r.notified_at = NULL
          /\ lastOp.pair \in list_pending_not_notified(acciones, PendingListLimit)
    /\ lastOp.op = "marcar_notificado" =>
          lastOp.pair \notin list_pending_not_notified(acciones, PendingListLimit)

\* registrar_accion has just re-registered a cancelled pair; the other pair's
\* action is approved and notified and stays as it was
C4_Witness ==
    /\ lastOp.op = "registrar_accion"
    /\ lastOp.pre = "cancelada"
    /\ lastOp.pair \in list_pending_not_notified(acciones, PendingListLimit)
    /\ \E r \in acciones : r.pair_address # lastOp.pair /\ r.estado = "aprobada"
                           /\ r.notified_at = "set"

(***************************************************************************)
(* Claims on the trade lifecycle                                           *)
(***************************************************************************)
\* C1: the sell fields of a Trade Ledger entry (sell_real_price, sell_amount,
\* pnl, bnb_amount) are non-null only on an entry whose buy_real_price is
\* non-null, and a worker is between a SELL decision and the sale only for an
\* entry whose buy_real_price is non-null.
C1_SellOnlyAfterRealBuy ==
    /\ \A i \in DOMAIN history :
          {history[i].sell_real_price, history[i].sell_amount,
           history[i].pnl, history[i].bnb_amount} # {None}
             => history[i].buy_real_price # None
    /\ \A p \in Pairs :
          threads[p].pc = "sell"
             => /\ threads[p].hid \in DOMAIN history
                /\ history[threads[p].hid].buy_real_price # None

\* the worker has sent its second sale and closed the entry it watched
C1_Witness ==
    /\ lastOp.op = "sell_sent"
    /\ \E i \in DOMAIN history :
          /\ history[i].sell_real_price # None /\ history[i].sell_amount # None
          /\ history[i].pnl # None /\ history[i].bnb_amount # None
          /\ history[i].buy_real_price # None
          /\ get_history_id(monitor_state, history[i].pair_address) = None

\* C5 (as claimed): propose_buy with a valid quote and a built transaction
\* registers a pending action for the pair and returns ok in pending-approval
\* mode, with reason PNL_BELOW_THRESHOLD when the expected pnl percent is below
\* the threshold and FEE_HIGH otherwise, without creating or linking a Trade
\* Ledger entry, when pnl percent < threshold or fee > cap; otherwise it takes
\* the IMMEDIATE path.
C5_GatedBuyGoesPending ==
    (lastOp.op = "propose_buy" /\ ~(FIRST_REAL_BUY /\ meta)
        /\ lastOp.args.quote > 0 /\ lastOp.args.tx.built)
    => LET a == lastOp.args
           fee == (IF a.tx.gasPrice = None THEN 0 ELSE a.tx.gasPrice) * a.tx.gas
           cost == a.price_native + (fee \div a.quote)
           below == (cost - a.current_price) * 100 < PNL_THRESHOLD_PERCENT * a.current_price
       IN  IF below \/ fee > MAX_FEE_BNB
           THEN /\ result.returned /\ result.ok
                /\ result.mode = "PENDING_USER"
                /\ result.reason = (IF below THEN "PNL_BELOW_THRESHOLD" ELSE "FEE_HIGH")
                /\ obtener_estado(acciones, lastOp.pair) = "pendiente"
                /\ effects \cap {"create_buy", "set_history_id"} = {}
           ELSE result.returned /\ result.ok /\ result.mode = "IMMEDIATE"

\* C6: first_buy_done is never cleared; with the fuse enabled and first_buy_done
\* set, propose_buy, confirm_pending_buy and procesar_token return ok = false
\* with reason FIRST_BUY_FUSE_BLOCKED having asked no quote, built no
\* transaction, and written neither the Action Ledger nor the Trade Ledger; no
\* call returns that reason in any other situation.
C6_FuseBlocksEveryBuy ==
    /\ [](/\ lastOp.op \in {"propose_buy", "confirm_pending_buy", "procesar_token"}
             => IF FIRST_REAL_BUY /\ meta
                THEN /\ result.returned /\ ~result.ok
                     /\ result.reason = "FIRST_BUY_FUSE_BLOCKED"
                     /\ effects = {}
                ELSE result.reason # "FIRST_BUY_FUSE_BLOCKED"
          /\ lastOp.op \in {"record_buy_receipt", "await_and_record_buy_receipt"}
             => result.reason # "FIRST_BUY_FUSE_BLOCKED")
    /\ [][/\ meta => meta'
          /\ (FIRST_REAL_BUY /\ meta
              /\ lastOp'.op \in {"propose_buy", "confirm_pending_buy", "procesar_token"})
             => /\ acciones' = acciones
                /\ history' = history
                /\ monitor_state' = monitor_state]_vars

\* an approved buy is confirmed after the fuse has tripped, and is blocked
C6_Witness ==
    /\ lastOp.op = "confirm_pending_buy"
    /\ FIRST_REAL_BUY /\ meta
    /\ obtener_estado(acciones, lastOp.pair) = "aprobada"
    /\ result.reason = "FIRST_BUY_FUSE_BLOCKED"
    /\ Len(history) = 1 /\ history[1].buy_real_price # None


(***************************************************************************)
(* Claims on the exit policy.  A tick evaluated by the policy leaves in    *)
(* lastOp.tick the runtime state it found (built from buy_real when the    *)
(* pair had none), the price, the entry's real buy price and the decision. *)
(***************************************************************************)
\* C7 (as claimed): on every evaluated tick, the decision is SELL with reason
\* STOP_LOSS if and only if price <= buyReal * (1 - STOP_LOSS_PCT/100), armed
\* or not, trailing stop hit or not.
C7_StopLossAtFloor ==
    (lastOp.op = "tick" /\ lastOp.tick.evaluated)
    => LET k == lastOp.tick
       IN  (k.current * 100 <= k.buy_real * (100 - STOP_LOSS_PCT))
           <=> (k.decision = [action |-> "SELL", reason |-> "STOP_LOSS"])

\* C8 (as claimed): on an evaluated tick that finds trailing unarmed and a price
\* above the stop-loss floor: below buyReal * (1 + TAKE_PROFIT_PCT/100) the
\* decision is HOLD and the runtime state is left as found; at or above that
\* level the decision is HOLD and the state becomes armed with peak = price and
\* trailing_stop = price * (1 - TRAILING_GAP_PCT/100).
C8_HoldUntilArmLevel ==
    (lastOp.op = "tick" /\ lastOp.tick.evaluated /\ ~lastOp.tick.st.armed
        /\ lastOp.tick.current * 100 > lastOp.tick.buy_real * (100 - STOP_LOSS_PCT))
    => LET k == lastOp.tick
           after == trail[lastOp.pair]
       IN  IF k.current * 100 < k.buy_real * (100 + TAKE_PROFIT_PCT)
           THEN k.decision.action = "HOLD" /\ after = k.st
           ELSE /\ k.decision.action = "HOLD"
                /\ after.armed
                /\ after.peak = k.current
                /\ after.trailing_stop = k.current * (100 - TRAILING_GAP_PCT)

\* C9: fed a monotone non-decreasing sequence of prices, trailing_stop never
\* decreases between two states in which trailing is armed.
C9_TrailingStopRatchets ==
    [][\A p \in Pairs :
          (trail[p].armed /\ trail'[p].armed)
             => trail'[p].trailing_stop >= trail[p].trailing_stop]_vars

\* an armed state meets a higher price: the peak and the trailing stop move up
C9_Witness ==
    /\ lastOp.op = "tick" /\ lastOp.tick.evaluated
    /\ lastOp.tick.st.armed
    /\ lastOp.tick.decision.reason = "NEW_PEAK"
    /\ trail[lastOp.pair].trailing_stop > lastOp.tick.st.trailing_stop

\* C10 (as claimed): an evaluated tick decides SELL with reason TRAILING_HIT if
\* and only if it found trailing armed, the price is above the stop-loss floor
\* buyReal * (1 - STOP_LOSS_PCT/100), is not above the peak, and is at or below
\* the trailing stop.
C10_TrailingHitExactly ==
    (lastOp.op = "tick" /\ lastOp.tick.evaluated)
    => LET k == lastOp.tick
       IN  /\ (k.decision.reason = "TRAILING_HIT")
              <=> (/\ k.st.armed
                   /\ k.current * 100 > k.buy_real * (100 - STOP_LOSS_PCT)
                   /\ k.current <= k.st.peak
                   /\ k.current * 100 <= k.st.trailing_stop)
           /\ k.decision.reason = "TRAILING_HIT" => k.decision.action = "SELL"

FillsOf(i) == {k \in DOMAIN fills : fills[k].hid = i}

\* the close of an entry by its second measured sale: the two fills of the entry
ClosedInTwoStages ==
    /\ lastOp.op = "sell_sent"
    /\ Len(fills) >= 2
    /\ fills[Len(fills)].stage = 1
    /\ fills[Len(fills) - 1].stage = 0
    /\ fills[Len(fills) - 1].hid = fills[Len(fills)].hid
    /\ Cardinality(FillsOf(fills[Len(fills)].hid)) = 2

\* (native - buyReal * units) * 100: the pnl of a fill times buyReal
FillGain(f, buy_real) == (f.native - buy_real * f.units) * 100

\* C12: at the close after a two-stage sale the pnl written is the sum over the
\* two fills of (sellPrice_i - buyReal) / buyReal * units_i * 100 with
\* sellPrice_i = native_i / units_i, and bnb_amount is the total native received
\* minus buyReal * total units; the pnl is not the simple average of the two
\* stages' pnls (unless it is within a unit of zero).
C12_AggregatePnl ==
    ClosedInTwoStages =>
        LET f1 == fills[Len(fills) - 1]
            f2 == fills[Len(fills)]
            b == f2.buy_real
            gain == FillGain(f1, b) + FillGain(f2, b)
            h == history[f2.hid]
        IN  /\ h.pnl = gain \div b
            /\ h.bnb_amount = (f1.native + f2.native) - b * (f1.units + f2.units)
            /\ h.sell_amount = f1.units + f2.units
            /\ (gain >= b \/ gain < -b) => h.pnl # gain \div (2 * b)

\* an entry has been closed by two fills at different prices, of different sizes
C12_Witness ==
    /\ ClosedInTwoStages
    /\ fills[Len(fills) - 1].price # fills[Len(fills)].price
    /\ fills[Len(fills) - 1].units # fills[Len(fills)].units
    /\ history[fills[Len(fills)].hid].pnl < -1
    /\ history[fills[Len(fills)].hid].pnl # FillGain(fills[Len(fills)], fills[Len(fills)].buy_real)
                                               \div fills[Len(fills)].buy_real

(***************************************************************************)
(* Claims on the life of a Trade Ledger entry                              *)
(***************************************************************************)
\* an entry whose sell fields have been written
IsClosed(h) == h.sell_real_price # None /\ h.sell_amount # None

\* C13 (as claimed): once the sell fields of a Trade Ledger entry have been
\* written, no later step - a receipt recording, a close through a controller,
\* a pass of a worker - changes any field of that entry.
C13_ClosedEntryFrozen ==
    [][\A i \in DOMAIN history :
          IsClosed(history[i]) => history'[i] = history[i]]_vars

BuyEntryPoints == {"propose_buy", "procesar_token", "confirm_pending_buy"}

\* C14: a buy call that returns in IMMEDIATE mode (propose_buy or procesar_token
\* within parameters, confirm_pending_buy on an approval) has created exactly
\* one Trade Ledger entry, holding the estimated fields only - buy_real_price,
\* buy_amount and every sell field null - and has pointed the pair's Position
\* Snapshot link at it; a buy call that does not return so writes neither.
C14_ImmediateOpensLinkedEntry ==
    [][lastOp'.op \in BuyEntryPoints =>
         IF result'.returned /\ result'.ok /\ result'.mode = "IMMEDIATE"
         THEN LET n == Len(history')
                  h == history'[n]
              IN  /\ n = Len(history) + 1
                  /\ SubSeq(history', 1, n - 1) = history
                  /\ h.pair_address = lastOp'.pair
                  /\ h.buy_entry_price = lastOp'.args.price_native
                  /\ h.buy_price_with_fees >= h.buy_entry_price
                  /\ h.buy_real_price = None /\ h.buy_amount = None
                  /\ h.sell_entry_price = None /\ h.sell_price_with_fees = None
                  /\ h.sell_real_price = None /\ h.sell_amount = None
                  /\ h.pnl = None /\ h.bnb_amount = None
                  /\ get_history_id(monitor_state', lastOp'.pair) = n
                  /\ \A q \in Pairs \ {lastOp'.pair} : monitor_state'[q] = monitor_state[q]
                  /\ {"create_buy", "set_history_id"} \subseteq effects'
         ELSE history' = history /\ monitor_state' = monitor_state]_vars

\* an approval has been confirmed: the entry it opened is linked to the pair
C14_Witness ==
    /\ lastOp.op = "confirm_pending_buy"
    /\ result.returned /\ result.ok /\ result.mode = "IMMEDIATE"
    /\ Len(history) = 1
    /\ history[1].buy_real_price = None
    /\ get_history_id(monitor_state, lastOp.pair) = 1

\* C15 (as claimed): confirm_pending_buy opens a Trade Ledger entry only for a
\* pair whose action is aprobada, and a successful confirmation consumes the
\* approval: the action is aprobada no more, so that confirming again opens no
\* second entry.
C15_ApprovalConsumed ==
    /\ [][(lastOp'.op = "confirm_pending_buy" /\ history' # history)
            => obtener_estado(acciones, lastOp'.pair) = "aprobada"]_vars
    /\ []((lastOp.op = "confirm_pending_buy" /\ result.returned /\ result.ok)
            => obtener_estado(acciones, lastOp.pair) # "aprobada")

(***************************************************************************)
(* C16: while the supervisor's loop keeps polling, every approved action   *)
(* of type compra is eventually passed to confirm_pending_buy by the       *)
(* digest, a confirmation that returns ok starts the pair's worker in the  *)
(* same pass, every cancelled action is eventually deleted from the Action *)
(* Ledger, and no pass of the supervisor modifies or deletes a pending     *)
(* action.                                                                 *)
(***************************************************************************)
ApprovedBuy(p) ==
    obtener_estado(acciones, p) = "aprobada" /\ obtener_tipo(acciones, p) = "compra"

SupervisorOps == {"run_loop", "digest_authorized", "digest_canceled"}

C16_DigestServesDecisions ==
    /\ \A p \in Pairs :
          ApprovedBuy(p) ~> ((lastOp.op = "digest_authorized" /\ lastOp.pair = p) \/ ~ApprovedBuy(p))
    /\ \A p \in Pairs :
          (obtener_estado(acciones, p) = "cancelada") ~> (obtener_estado(acciones, p) # "cancelada")
    /\ [][(lastOp'.op = "digest_authorized" /\ lastOp'.pair \in tokens
              /\ result'.returned /\ result'.ok)
             => threads'[lastOp'.pair].alive]_vars
    /\ [][lastOp'.op \in SupervisorOps =>
             \A p \in Pairs : obtener_estado(acciones, p) = "pendiente" =>
                 RowsOf(acciones', p) = RowsOf(acciones, p)]_vars

(***************************************************************************)
(* C17, as stated: a step that takes an action from pendiente to aprobada  *)
(* or cancelada is a step of the supervisor's digest; the discovery loop,  *)
(* the bot's handlers and the buy pipeline make no such write.             *)
(***************************************************************************)
LeavesPending(p) ==
    /\ obtener_estado(acciones, p) = "pendiente"
    /\ obtener_estado(acciones', p) \in {"aprobada", "cancelada"}

OperatorOps ==
    {"handle_comprar", "handle_vender", "handle_cancelar",
     "handle_callback_approve", "handle_callback_cancel"}

QuotingCalls == {"propose_buy", "confirm_pending_buy", "prepare_sell"}

\* the call just made got past the checks that come before its quote
ReachedQuote ==
    /\ lastOp'.op \in QuotingCalls
    /\ ~lastOp'.args.fuse
    /\ lastOp'.op = "confirm_pending_buy" => obtener_estado(acciones, lastOp'.pair) = "aprobada"

C18_NoQuoteNoTrade ==
    [][(ReachedQuote /\ lastOp'.args.quote <= 0) =>
          /\ result'.returned /\ ~result'.ok /\ result'.reason # NULL
          /\ effects' = {"quote"}
          /\ acciones' = acciones
          /\ history' = history
          /\ monitor_state' = monitor_state]_vars

\* an approved buy has just been refused for a quote of zero
C18_Witness ==
    /\ lastOp.op = "confirm_pending_buy"
    /\ obtener_estado(acciones, lastOp.pair) = "aprobada"
    /\ lastOp.args.quote = 0
    /\ result.returned /\ ~result.ok
    /\ result.reason = "amountOutMin invalido tras confirmacion"
    /\ history = <<>>

(***************************************************************************)
(* C19: get_amount_out_min and get_amount_out_min_token_to_bnb return 0,   *)
(* never a positive amount, when the amount in is not positive, when a hop *)
(* of the path has no pool, or when the router call has failed at every    *)
(* attempt; they return a positive amount only when the router returned a  *)
(* positive final amount.                                                  *)
(***************************************************************************)
\* the router was asked and the attempt that answered gave a positive final amount
RouterGavePositive(q) ==
    /\ q.amount_in # None /\ q.amount_in > 0
    /\ path_pairs_exist(q.factory, q.hops)
    /\ \E i \in 1..RETRY_RPC_TIMES :
          /\ i <= Len(q.attempts)
          /\ q.attempts[i].ok /\ q.attempts[i].final > 0
          /\ \A j \in 1..(i - 1) : ~q.attempts[j].ok

NoPool(q) ==
    q.factory /\ (q.hops = <<>> \/ \E i \in 1..Len(q.hops) : q.hops[i] # "pool")

RouterFailed(q) == \A i \in 1..Len(q.attempts) : ~q.attempts[i].ok

C19_ZeroUnlessRouterPositive ==
    quoted.fn # NULL =>
        /\ (quoted.amount_in = None \/ quoted.amount_in <= 0 \/ NoPool(quoted) \/ RouterFailed(quoted))
              => quoted.out = 0
        /\ quoted.out > 0 => RouterGavePositive(quoted)

\* a quote over a path with a missing pool gave 0 although the router would
\* have answered 1000
C19_Witness ==
    /\ quoted.fn = "get_amount_out_min"
    /\ quoted.amount_in = 1000
    /\ quoted.factory /\ quoted.hops = <<"pool", "none">>
    /\ quoted.attempts[1] = Answer(1000)
    /\ quoted.out = 0

(***************************************************************************)
(* C20: a receipt recording that writes the real buy price and units of an *)
(* entry while the fuse is enabled and the run is not a dry run leaves     *)
(* first_buy_done set; in a dry run, or with the fuse disabled, no receipt *)
(* recording changes first_buy_done.                                       *)
(***************************************************************************)
ReceiptRecordings == {"record_buy_receipt", "await_and_record_buy_receipt"}

C20_RealFillTripsFuse ==
    [][lastOp'.op \in ReceiptRecordings =>
          /\ (result'.returned /\ result'.ok /\ FIRST_REAL_BUY /\ ~DRY_RUN)
                => first_buy_already_done'
          /\ (DRY_RUN \/ ~FIRST_REAL_BUY) => meta' = meta]_vars

(***************************************************************************)
(* C21: a transaction returned by a builder carries the fee fields of      *)
(* exactly one model, whatever build_transaction had put in it: in mode    *)
(* 1559 maxFeePerGas and maxPriorityFeePerGas and no gasPrice, in legacy   *)
(* mode gasPrice and neither of the two.                                   *)
(***************************************************************************)
C21_ExactlyOneFeeModel ==
    (w3s.pc = "built" /\ w3s.tx.built) =>
        IF w3s.gas_mode = "1559"
        THEN /\ w3s.tx.maxFeePerGas # None /\ w3s.tx.maxPriorityFeePerGas # None
             /\ w3s.tx.gasPrice = None
        ELSE /\ w3s.tx.gasPrice # None
             /\ w3s.tx.maxFeePerGas = None /\ w3s.tx.maxPriorityFeePerGas = None

(***************************************************************************)
(* C22: _rpc_call makes at most `retries` calls of the wrapped function;   *)
(* it returns the value of the first call that succeeds and makes no call  *)
(* after it; after each call that fails the endpoint index moves to the    *)
(* next endpoint, wrapping around; it raises exactly when `retries` calls  *)
(* have failed; and a call of _rpc_call that has begun ends, returning or  *)
(* raising.                                                                *)
(***************************************************************************)
RpcEnded == w3s.pc \in {"returned", "raised"}

AllFailed(outcomes) == \A i \in 1..Len(outcomes) : ~outcomes[i].ok

C22_BoundedRetries ==
    /\ [](/\ w3s.calls <= w3s.retries
          /\ w3s.calls = Len(w3s.outcomes)
          /\ w3s.pc = "returned" =>
                /\ w3s.outcomes[w3s.calls].ok
                /\ AllFailed(SubSeq(w3s.outcomes, 1, w3s.calls - 1))
                /\ w3s.out = rpc_call(w3s.outcomes, w3s.retries)
          /\ w3s.pc = "raised" => (w3s.calls = w3s.retries /\ AllFailed(w3s.outcomes))
          /\ w3s.pc = "calling" => (w3s.calls < w3s.retries /\ AllFailed(w3s.outcomes)))
    /\ [][lastOp'.op = "_rpc_call_attempt" =>
             /\ w3s.pc = "calling"
             /\ w3s'.calls = w3s.calls + 1
             /\ IF w3s'.outcomes[w3s'.calls].ok
                THEN w3s'.current_rpc_idx = w3s.current_rpc_idx
                ELSE w3s'.current_rpc_idx = (w3s.current_rpc_idx + 1) % w3s.n_urls]_vars
    /\ (w3s.pc = "calling") ~> RpcEnded

\* two endpoints, three failures: the index has wrapped around, and the call
\* has raised
C22_Witness ==
    /\ w3s.pc = "raised"
    /\ w3s.retries = 3 /\ w3s.calls = 3 /\ w3s.n_urls = 2
    /\ w3s.current_rpc_idx = 0
    /\ lastOp.op = "_rpc_call_attempt"


(***************************************************************************)
(* The supervisor's threads, statement by statement: the loop thread that  *)
(* start() launches (_run_loop, which reaches start_thread_for_pair from   *)
(* _handle_authorized), the thread that calls stop(), and the position     *)
(* workers.  orch.threads is self._threads (pair -> index of the handle in *)
(* orch.workers, 0 when the pair has none); a handle stays registered      *)
(* after its thread has ended.                                             *)
(***************************************************************************)
MaxWorkers == 3

\* Thread.is_alive() of a handle
is_alive(worker) == worker.pc # "done"

\* the guard of start_thread_for_pair: a live worker is registered for the pair
has_live_worker_never(registry, workers, p) == FALSE
has_live_worker(registry, workers, p) == registry[p] # 0 /\ is_alive(workers[registry[p]])

LiveWorkers(p) == {w \in 1..Len(orch.workers) : orch.workers[w].pair = p /\ is_alive(orch.workers[w])}

\* MonitorOrchestrator.__init__ followed by start(): no handle, the loop at its head
InitOrch ==
    orch = [pc |-> "threads", stop_evt |-> FALSE, stop_pc |-> "idle",
            loop |-> [pc |-> "head", pair |-> NULL],
            threads |-> [p \in Pairs |-> 0], workers |-> <<>>]

OrchStep(op, pair) ==
    /\ Called(op, pair, NULL)
    /\ UNCHANGED <<acciones, meta, history, monitor_state, FIRST_REAL_BUY, DRY_RUN, w3s, tokens,
                   quoted, result, effects, workerVars>>

\* while not self._stop_evt.is_set()
LoopHead ==
    /\ orch.pc = "threads" /\ orch.loop.pc = "head"
    /\ orch' = [orch EXCEPT !.loop.pc = IF orch.stop_evt THEN "exited" ELSE "pass"]
    /\ OrchStep("_run_loop", NULL)

\* the first statement of start_thread_for_pair, reached from _handle_authorized
LoopStartCheck(p) ==
    /\ orch.pc = "threads" /\ orch.loop.pc = "pass"
    /\ IF has_live_worker(orch.threads, orch.workers, p)
       THEN orch' = orch
       ELSE /\ Len(orch.workers) < MaxWorkers
            /\ orch' = [orch EXCEPT !.loop = [pc |-> "checked", pair |-> p]]
    /\ OrchStep("start_thread_for_pair", p)

\* the rest of start_thread_for_pair: a new stop event, the handle registered, th.start()
LoopRegister ==
    /\ orch.pc = "threads" /\ orch.loop.pc = "checked"
    /\ orch' = [orch EXCEPT !.workers = Append(@, [pair |-> orch.loop.pair, pc |-> "head",
                                                    stop_evt |-> FALSE]),
                            !.threads[orch.loop.pair] = Len(orch.workers) + 1,
                            !.loop = [pc |-> "pass", pair |-> NULL]]
    /\ OrchStep("th.start", orch.loop.pair)

\* the end of a pass: time.sleep(poll_seconds)
LoopSleep ==
    /\ orch.pc = "threads" /\ orch.loop.pc = "pass"
    /\ orch' = [orch EXCEPT !.loop.pc = "head"]
    /\ OrchStep("time.sleep", NULL)

\* stop(), first statement: self._stop_evt.set()
StopSet ==
    /\ orch.pc = "threads" /\ orch.stop_pc = "idle"
    /\ orch' = [orch EXCEPT !.stop_evt = TRUE, !.stop_pc = "set"]
    /\ OrchStep("stop", NULL)

\* stop(), the loop over list(self._threads.items()): the handles registered
\* when the list is built get their stop event set
StopSignal ==
    /\ orch.pc = "threads" /\ orch.stop_pc = "set"
    /\ orch' = [orch EXCEPT !.stop_pc = "returned",
                            !.workers = [w \in 1..Len(@) |->
                                IF \E p \in Pairs : orch.threads[p] = w
                                THEN [@[w] EXCEPT !.stop_evt = TRUE] ELSE @[w]]]
    /\ OrchStep("stop.signal", NULL)

\* stop_thread_for_pair on the orchestrator
StopPair(p) ==
    /\ orch.pc = "threads"
    /\ orch' = IF orch.threads[p] = 0 THEN orch
               ELSE [orch EXCEPT !.workers[orch.threads[p]].stop_evt = TRUE]
    /\ OrchStep("stop_thread_for_pair", p)

\* _monitor_worker: while not stop_evt.is_set()
MonitorHead(w) ==
    /\ orch.pc = "threads" /\ w \in 1..Len(orch.workers) /\ orch.workers[w].pc = "head"
    /\ orch' = [orch EXCEPT !.workers[w].pc = IF orch.workers[w].stop_evt THEN "done" ELSE "pass"]
    /\ OrchStep("_monitor_worker", orch.workers[w].pair)

\* _monitor_worker, one pass: it waits a tick and loops ("head"), finds the
\* position closed and breaks ("done"), or sells and writes the sell fields ("wrote")
MonitorPass(w, to) ==
    /\ orch.pc = "threads" /\ w \in 1..Len(orch.workers) /\ orch.workers[w].pc = "pass"
    /\ to \in {"head", "done", "wrote"}
    /\ orch' = [orch EXCEPT !.workers[w].pc = to]
    /\ OrchStep("_monitor_worker.pass", orch.workers[w].pair)

\* _monitor_worker after finalize_sell: clear_history_id, then break
MonitorClear(w) ==
    /\ orch.pc = "threads" /\ w \in 1..Len(orch.workers) /\ orch.workers[w].pc = "wrote"
    /\ orch' = [orch EXCEPT !.workers[w].pc = "done"]
    /\ OrchStep("clear_history_id", orch.workers[w].pair)

WorkerIds == 1..MaxWorkers

LoopSteps == LoopHead \/ (\E p \in Pairs : LoopStartCheck(p)) \/ LoopRegister \/ LoopSleep

MonitorSteps ==
    \E w \in WorkerIds : MonitorHead(w) \/ (\E to \in {"head", "done", "wrote"} : MonitorPass(w, to))
                                        \/ MonitorClear(w)

InitThreads ==
    /\ InitOrch
    /\ acciones = {}
    /\ tokens = Pairs
    /\ quoted = NoQuote
    /\ w3s = NoClient
    /\ history = <<>>
    /\ monitor_state = [p \in Pairs |-> NoSnapshot]
    /\ result = NoResult
    /\ effects = {}
    /\ lastOp = NoOp
    /\ InitWorkers
    /\ meta = FALSE
    /\ FIRST_REAL_BUY = FALSE
    /\ DRY_RUN = TRUE

NextThreads ==
    \/ LoopSteps
    \/ StopSet
    \/ StopSignal
    \/ \E p \in Pairs : StopPair(p)
    \/ MonitorSteps

SpecThreads == InitThreads /\ [][NextThreads]_vars

\* every thread that can take a step eventually takes one
SpecThreadsFair == SpecThreads /\ WF_vars(LoopSteps) /\ WF_vars(StopSignal) /\ \A w \in WorkerIds : WF_vars(MonitorHead(w)) /\ WF_vars(\E to \in {"head", "done", "wrote"} : MonitorPass(w, to)) /\ WF_vars(MonitorClear(w))

AllSignalled == \A w \in 1..Len(orch.workers) : is_alive(orch.workers[w]) => orch.workers[w].stop_evt

AllTerminated == \A w \in 1..Len(orch.workers) : ~is_alive(orch.workers[w])

\* C24: once stop() has returned and the supervisor loop has exited, every
\* worker still running has its stop event set, the one the loop was starting
\* while stop() ran included; under fair scheduling every worker then ends;
\* and a worker that has written the sell fields leaves that point only by
\* clearing the snapshot link, stop signal or not
C24_StopReachesEveryWorker ==
    /\ []((orch.pc = "threads" /\ orch.stop_pc = "returned" /\ orch.loop.pc = "exited") => AllSignalled)
    /\ (orch.pc = "threads" /\ orch.stop_pc = "returned") ~> (orch.pc = "threads" /\ AllTerminated)
    /\ [][orch.pc = "threads" =>
            \A w \in 1..Len(orch.workers) : orch.workers[w].pc = "wrote" =>
                \/ orch'.workers[w].pc = "wrote"
                \/ orch'.workers[w].pc = "done" /\ lastOp'.op = "clear_history_id"]_vars


(***************************************************************************)
(* Nonces.  The sell flow of the position workers against one signing      *)
(* account: prepare_sell builds the approve transaction (when the          *)
(* allowance is short) and the sell transaction, the worker hands the      *)
(* approve to sign_and_send, and send_sell_and_measure hands over the sell.*)
(* w3s.count is what eth.get_transaction_count answers (the account's      *)
(* mined transactions), w3s.sent the transactions given to                 *)
(* send_raw_transaction, in order.                                         *)
(***************************************************************************)
MaxSales == 2

\* what the node answers while the account has mined count transactions
NodeNow(count) ==
    [count |-> Value(count), latest |-> Value(None), gas_price |-> Value(50),
     max_priority |-> Value(10), estimate |-> Value(200), estimate_relaxed |-> Value(200)]

LegacyClient == [gas_mode |-> "legacy", GAS_PRICE_WEI_OVERRIDE |-> 0]

NoSale == [pc |-> "idle", approve_tx |-> NoBuiltTx, sell_tx |-> NoBuiltTx]

\* sign_and_send: nothing leaves in a dry run
sign_and_send(sent, dry_run, kind, pair, tx) ==
    IF dry_run THEN sent ELSE Append(sent, [kind |-> kind, pair |-> pair, tx |-> tx])

NonceStep(op, pair) ==
    /\ Called(op, pair, NULL)
    /\ UNCHANGED <<acciones, meta, history, monitor_state, FIRST_REAL_BUY, DRY_RUN, orch, tokens,
                   quoted, result, effects, workerVars>>

\* prepare_sell up to the approve: built only when the allowance is short
PrepareApprove(p, short) ==
    /\ w3s.pc = "nonce" /\ w3s.sales[p].pc = "idle" /\ w3s.started < MaxSales
    /\ w3s' = [w3s EXCEPT !.started = @ + 1,
                          !.sales[p] = [pc |-> "allowance", sell_tx |-> NoBuiltTx,
                                        approve_tx |-> IF short
                                            THEN build_approve(TRUE, Tx(None, None, None, None, None, None),
                                                               LegacyClient, DRY_RUN, NodeNow(w3s.count))
                                            ELSE NoBuiltTx]]
    /\ NonceStep("prepare_sell.build_approve", p)

\* prepare_sell, the sell transaction
PrepareSell(p) ==
    /\ w3s.pc = "nonce" /\ w3s.sales[p].pc = "allowance"
    /\ w3s' = [w3s EXCEPT !.sales[p].pc = "prepared",
                          !.sales[p].sell_tx =
                              build_swap_exact_tokens_for_eth(TRUE, Tx(None, None, None, None, None, None),
                                                              LegacyClient, DRY_RUN, NodeNow(w3s.count))]
    /\ NonceStep("prepare_sell", p)

\* the worker after prepare_sell: the approve, if any, goes out first
SendApprove(p) ==
    /\ w3s.pc = "nonce" /\ w3s.sales[p].pc = "prepared"
    /\ w3s' = [w3s EXCEPT !.sales[p].pc = "approved",
                          !.sent = IF w3s.sales[p].approve_tx.built
                                   THEN sign_and_send(@, DRY_RUN, "approve", p, w3s.sales[p].approve_tx)
                                   ELSE @]
    /\ NonceStep("sign_and_send", p)

\* send_sell_and_measure: the sell transaction goes out
SendSell(p) ==
    /\ w3s.pc = "nonce" /\ w3s.sales[p].pc = "approved"
    /\ w3s' = [w3s EXCEPT !.sales[p] = NoSale,
                          !.sent = sign_and_send(@, DRY_RUN, "sell", p, w3s.sales[p].sell_tx)]
    /\ NonceStep("send_sell_and_measure", p)

\* the chain mines a transaction of the account that carries its next nonce
Mine ==
    /\ w3s.pc = "nonce"
    /\ \E i \in 1..Len(w3s.sent) : w3s.sent[i].tx.nonce = w3s.count
    /\ w3s' = [w3s EXCEPT !.count = @ + 1]
    /\ NonceStep("mined", NULL)

InitNonce ==
    /\ w3s = [pc |-> "nonce", count |-> 7, started |-> 0, sent |-> <<>>,
              sales |-> [p \in Pairs |-> NoSale]]
    /\ acciones = {}
    /\ tokens = Pairs
    /\ quoted = NoQuote
    /\ orch = NoOrch
    /\ history = <<>>
    /\ monitor_state = [p \in Pairs |-> NoSnapshot]
    /\ result = NoResult
    /\ effects = {}
    /\ lastOp = NoOp
    /\ InitWorkers
    /\ meta = FALSE
    /\ FIRST_REAL_BUY = FALSE
    /\ DRY_RUN \in BOOLEAN

NextNonce ==
    \/ \E p \in Pairs, short \in BOOLEAN : PrepareApprove(p, short)
    \/ \E p \in Pairs : PrepareSell(p)
    \/ \E p \in Pairs : SendApprove(p)
    \/ \E p \in Pairs : SendSell(p)
    \/ Mine

SpecNonce == InitNonce /\ [][NextNonce]_vars

\* C25: no two distinct transactions handed to the node for the signing
\* account carry the same nonce, be they the approve and the sell of one
\* sale or transactions built by workers running concurrently
C25_DistinctNonces ==
    w3s.pc = "nonce" =>
        \A i, j \in 1..Len(w3s.sent) : i # j => w3s.sent[i].tx.nonce # w3s.sent[j].tx.nonce


(***************************************************************************)
(* Discovery with the security oracle's verdict.  orch.flagged is the set  *)
(* of pairs whose token the oracle flagged as a honeypot when the pair was *)
(* discovered.  The pairs come through DiscoveryOrchestrator._discover_once*)
(* or DiscoveryController.procesar_tokens_descubiertos; the operator       *)
(* answers the prompts through the bot and the supervisor polls.           *)
(***************************************************************************)
GoplusAnswers == {"1", "0", "unknown"}

\* DiscoveryOrchestrator._is_honeypot: "1" is a honeypot, "0" and "unknown" are not
is_honeypot(res) == res = "1"

\* DiscoveryOrchestrator._within_parameters; ok is the verdict of the age,
\* liquidity and tax thresholds
within_parameters_ignores_honeypot(honeypot, ok) == ok
within_parameters(honeypot, ok) == IF honeypot THEN FALSE ELSE ok

\* DiscoveryController._filter_reasons: whether it returns any reason
filter_reasons(honeypot, ok) == honeypot \/ ~ok

\* TelegramService.solicitar_autorizacion: the prompt is sent, then
\* registrar_accion is called with the keywords token_address and motivo, which
\* ActionRepository.registrar_accion does not take: TypeError, nothing written
solicitar_autorizacion(acc, pair, tipo) == acc

Flag(pair, honeypot) ==
    orch' = [orch EXCEPT !.flagged = IF honeypot THEN @ \cup {pair} ELSE @]

\* _discover_once for one pair the search returned, res being the oracle's answer
discover_token(pair, res, ok) ==
    /\ orch.pc = "discovery"
    /\ IF pair \in tokens
       THEN UNCHANGED <<tokens, acciones, orch>>
       ELSE /\ tokens' = tokens \cup {pair}
            /\ Flag(pair, is_honeypot(res))
            /\ acciones' = IF within_parameters(is_honeypot(res), ok)
                           THEN autorizar_accion(registrar_accion(acciones, pair, "compra"), pair)
                           ELSE acciones
    /\ Called(IF pair \in tokens THEN "discover_once_seen"
              ELSE IF within_parameters(is_honeypot(res), ok)
              THEN "discover_once_within" ELSE "discover_once_outside",
              pair, obtener_estado(acciones, pair))
    /\ UNCHANGED <<meta, history, monitor_state, FIRST_REAL_BUY, DRY_RUN, w3s, quoted, result,
                   effects, workerVars>>

\* procesar_tokens_descubiertos for one candidate: a pair with a token row is
\* not a candidate; the row is saved; with filter reasons the operator is
\* prompted and the loop goes on, else the token goes to procesar_token
procesar_tokens_descubiertos(pair, honeypot, ok, quote, tx, price_native) ==
    /\ orch.pc = "discovery"
    /\ IF pair \in tokens
       THEN /\ Called("buscar_pares_con_bnb", pair, obtener_estado(acciones, pair))
            /\ UNCHANGED <<tokens, orch, acciones, history, monitor_state, result, effects>>
       ELSE /\ tokens' = tokens \cup {pair}
            /\ Flag(pair, honeypot)
            /\ IF filter_reasons(honeypot, ok)
               THEN /\ acciones' = solicitar_autorizacion(acciones, pair, "compra")
                    /\ Called("solicitar_autorizacion", pair, obtener_estado(acciones, pair))
                    /\ UNCHANGED <<history, monitor_state, result, effects>>
               ELSE /\ IF FuseBlocks
                       THEN /\ result' = Fail("FIRST_BUY_FUSE_BLOCKED")
                            /\ effects' = {}
                            /\ UNCHANGED <<acciones, history, monitor_state>>
                       ELSE propose_buy_body(pair, quote, tx, price_native, price_native)
                    /\ Called("procesar_token", pair, obtener_estado(acciones, pair))
    /\ UNCHANGED <<meta, FIRST_REAL_BUY, DRY_RUN, w3s, quoted, workerVars>>

InitDiscovery ==
    /\ orch = [pc |-> "discovery", flagged |-> {}]
    /\ acciones = {}
    /\ tokens = {}
    /\ quoted = NoQuote
    /\ w3s = NoClient
    /\ history = <<>>
    /\ monitor_state = [p \in Pairs |-> NoSnapshot]
    /\ result = NoResult
    /\ effects = {}
    /\ lastOp = NoOp
    /\ InitWorkers
    /\ meta = FALSE
    /\ FIRST_REAL_BUY = FALSE
    /\ DRY_RUN = TRUE

NextDiscovery ==
    \/ \E p \in Pairs, res \in GoplusAnswers, ok \in BOOLEAN : discover_token(p, res, ok)
    \/ \E p \in Pairs, hp \in BOOLEAN, ok \in BOOLEAN, i \in ConfirmInputs :
          procesar_tokens_descubiertos(p, hp, ok, i.quote, i.tx, i.price_native)
    \/ \E p \in Pairs : handle_comprar(p)
    \/ \E p \in Pairs : handle_cancelar(p)
    \/ \E p \in Pairs, a \in {"approve", "cancel"} : handle_callback(a, p)
    \/ supervisor_poll

SpecDiscovery == InitDiscovery /\ [][NextDiscovery]_vars

BuyPipelineOps == {"procesar_token", "propose_buy", "confirm_pending_buy", "discover_once_within"}

PipelineEntryPoints ==
    {"propose_buy", "confirm_pending_buy", "cancel_pending_buy", "record_buy_receipt",
     "await_and_record_buy_receipt", "prepare_sell", "send_sell_and_measure", "record_sell_result"}

\* C27: every call of a pipeline entry point returns a result that carries an
\* explicit success flag, with a reason when the flag is false; none ends in
\* an exception that reaches the caller
C27_StructuredResults ==
    lastOp.op \in PipelineEntryPoints =>
        /\ result.returned
        /\ result.raised = NULL
        /\ ~result.ok => result.reason # NULL


(***************************************************************************)
(* Python's float, as the exit policy computes with it: IEEE-754 binary64  *)
(* with round-half-to-even.  A float is [m, e], its value m * 2^e with m a *)
(* significand of 53 bits held as limbs of 15 bits, least significant      *)
(* first.  Only positive normal numbers occur (prices and percentages).    *)
(***************************************************************************)
LimbBase == 2^15

Limbs == 1..8

\* the limbs F(1) .. F(8), computed at once
EachLimb(F(_)) == <<F(1), F(2), F(3), F(4), F(5), F(6), F(7), F(8)>>

SignificandBits == 53

Limb(a, i) == IF i \in Limbs THEN a[i] ELSE 0

Big(n) ==
    LET limb(i) == CASE i = 1 -> n % LimbBase [] i = 2 -> (n \div LimbBase) % LimbBase [] i = 3 -> n \div (LimbBase * LimbBase) [] OTHER -> 0
    IN  EachLimb(limb)

RECURSIVE AddCarry(_, _, _)
AddCarry(a, b, i) == IF i = 0 THEN 0 ELSE (a[i] + b[i] + AddCarry(a, b, i - 1)) \div LimbBase

BigAdd(a, b) ==
    LET limb(i) == (a[i] + b[i] + AddCarry(a, b, i - 1)) % LimbBase
    IN  EachLimb(limb)

RECURSIVE SubBorrow(_, _, _)
SubBorrow(a, b, i) ==
    IF i = 0 THEN 0 ELSE IF a[i] - b[i] - SubBorrow(a, b, i - 1) < 0 THEN 1 ELSE 0

\* a - b for a >= b
BigSub(a, b) ==
    LET limb(i) == (a[i] - b[i] - SubBorrow(a, b, i - 1) + LimbBase) % LimbBase
    IN  EachLimb(limb)

\* -1, 0 or 1 as a is below, equal to or above b on the limbs i down to 1
RECURSIVE BigCompare(_, _, _)
BigCompare(a, b, i) ==
    IF i = 0 THEN 0
    ELSE IF a[i] < b[i] THEN -1
    ELSE IF a[i] > b[i] THEN 1
    ELSE BigCompare(a, b, i - 1)

RECURSIVE MulCarry(_, _, _)
MulCarry(a, k, i) == IF i = 0 THEN 0 ELSE (a[i] * k + MulCarry(a, k, i - 1)) \div LimbBase

\* a * k for a limb k
BigMulSmall(a, k) ==
    LET limb(i) == (a[i] * k + MulCarry(a, k, i - 1)) % LimbBase
    IN  EachLimb(limb)

ShiftLimbs(a, j) ==
    LET limb(i) == Limb(a, i - j)
    IN  EachLimb(limb)

RECURSIVE MulSum(_, _, _)
MulSum(a, b, j) ==
    IF j = 0 THEN Big(0)
    ELSE BigAdd(MulSum(a, b, j - 1), ShiftLimbs(BigMulSmall(a, b[j]), j - 1))

BigMul(a, b) == MulSum(a, b, 8)

ShiftLeft(a, k) == ShiftLimbs(BigMulSmall(a, 2^(k % 15)), k \div 15)

ShiftRight(a, k) ==
    LET limb(i) == (Limb(a, i + (k \div 15)) \div 2^(k % 15)) + (Limb(a, i + (k \div 15) + 1) % 2^(k % 15)) * 2^(15 - (k % 15))
    IN  EachLimb(limb)

RECURSIVE DivRem(_, _, _)
DivRem(a, d, i) == IF i > 8 THEN 0 ELSE (DivRem(a, d, i + 1) * LimbBase + a[i]) % d

\* the quotient of a by a small d; DivRem(a, d, 1) is the remainder
BigDivSmall(a, d) ==
    LET limb(i) == (DivRem(a, d, i + 1) * LimbBase + a[i]) \div d
    IN  EachLimb(limb)

BitLength(a) ==
    IF \A i \in Limbs : a[i] = 0 THEN 0
    ELSE LET t == CHOOSE i \in Limbs : a[i] # 0 /\ \A j \in Limbs : j > i => a[j] = 0
         IN  15 * (t - 1) + (CHOOSE n \in 1..15 : a[t] < 2^n /\ a[t] >= 2^(n - 1))

\* m * 2^e rounded to the nearest float, ties to even; sticky tells that m
\* is itself the truncation of a longer number
RoundToFloat(m, e, sticky) ==
    LET k == BitLength(m) - SignificandBits
    IN  IF k <= 0 THEN [m |-> ShiftLeft(m, 0 - k), e |-> e + k]
        ELSE LET q == ShiftRight(m, k)
                 c == BigCompare(BigSub(m, ShiftLeft(q, k)), ShiftLeft(Big(1), k - 1), 8)
                 up == c > 0 \/ (c = 0 /\ (sticky \/ q[1] % 2 = 1))
                 q1 == IF up THEN BigAdd(q, Big(1)) ELSE q
             IN  IF BitLength(q1) > SignificandBits
                 THEN [m |-> ShiftRight(q1, 1), e |-> e + k + 1]
                 ELSE [m |-> q1, e |-> e + k]

\* the float written n/d in decimal (1.07 is Float(1070, 1000)), which is also
\* float(n) / float(d)
Float(n, d) ==
    LET a == ShiftLeft(Big(n), 64)
    IN  RoundToFloat(BigDivSmall(a, d), -64, DivRem(a, d, 1) # 0)

Aligned(x, y) ==
    LET e == IF x.e < y.e THEN x.e ELSE y.e
    IN  [x |-> ShiftLeft(x.m, x.e - e), y |-> ShiftLeft(y.m, y.e - e), e |-> e]

float_add(x, y) == LET a == Aligned(x, y) IN RoundToFloat(BigAdd(a.x, a.y), a.e, FALSE)

\* x - y for x >= y
float_sub(x, y) == LET a == Aligned(x, y) IN RoundToFloat(BigSub(a.x, a.y), a.e, FALSE)

float_mul(x, y) == RoundToFloat(BigMul(x.m, y.m), x.e + y.e, FALSE)

float_le(x, y) == LET a == Aligned(x, y) IN BigCompare(a.x, a.y, 8) <= 0

float_lt(x, y) == LET a == Aligned(x, y) IN BigCompare(a.x, a.y, 8) < 0

(***************************************************************************)
(* The exit policy on floats: _init_trailing and _update_trailing with the *)
(* arithmetic above, applied to a price path of one position.  Prices are  *)
(* written in thousandths (1070 is the float 1.07); orch.path is the path  *)
(* of the ticks evaluated so far.                                          *)
(***************************************************************************)
MaxTicks == 4

NoFloat == [m |-> Big(0), e |-> 0]

NoFloatTrail == [armed |-> FALSE, peak |-> NoFloat, trailing_stop |-> NoFloat, stop_loss |-> NoFloat]

\* (1 - pct/100.0) and (1 + pct/100.0)
float_below(pct) == float_sub(Float(1, 1), Float(pct, 100))

float_above(pct) == float_add(Float(1, 1), Float(pct, 100))

\* price * (1 - TRAILING_GAP_PCT/100.0)
float_trailing_stop_no_gap(price) == price
float_trailing_stop(price) == float_mul(price, float_below(TRAILING_GAP_PCT))

\* buy_real * (1 - STOP_LOSS_PCT/100.0)
float_stop_loss_decimal(buy_real) == float_mul(buy_real, Float(100 - STOP_LOSS_PCT, 100))
float_stop_loss(buy_real) == float_mul(buy_real, float_below(STOP_LOSS_PCT))

float_init_trailing(buy_real) ==
    [armed |-> TAKE_PROFIT_PCT <= 0,
     peak |-> buy_real,
     trailing_stop |-> float_trailing_stop(buy_real),
     stop_loss |-> float_stop_loss(buy_real)]

float_update_trailing(st0, current, buy_real) ==
    LET st == IF st0 = NoFloatTrail THEN float_init_trailing(buy_real) ELSE st0
        moved == [st EXCEPT !.armed = TRUE, !.peak = current,
                            !.trailing_stop = float_trailing_stop(current)]
    IN  IF float_le(current, st.stop_loss)
        THEN [st |-> st, decision |-> Decision("SELL", "STOP_LOSS")]
        ELSE IF ~st.armed
        THEN IF float_le(float_mul(buy_real, float_above(TAKE_PROFIT_PCT)), current)
             THEN [st |-> moved, decision |-> Decision("HOLD", "ARMED_TRAILING")]
             ELSE [st |-> st, decision |-> Decision("HOLD", "NONE")]
        ELSE IF float_lt(st.peak, current)
        THEN [st |-> moved, decision |-> Decision("HOLD", "NEW_PEAK")]
        ELSE IF float_le(current, st.trailing_stop)
        THEN [st |-> st, decision |-> Decision("SELL", "TRAILING_HIT")]
        ELSE [st |-> st, decision |-> Decision("HOLD", "NONE")]

FloatTicks == {920, 930, 1000, 1060, 1067, 1070, 1100}

\* a pass of the worker's loop as far as the policy goes: _update_trailing on
\* the price the market reports, for a position bought at 1.0
FloatTick(p, price) ==
    LET r == float_update_trailing(trail[p], Float(price, 1000), Float(1000, 1000))
    IN  /\ orch.pc = "ticks" /\ Len(orch.path) < MaxTicks
        /\ trail' = [trail EXCEPT ![p] = r.st]
        /\ orch' = [orch EXCEPT !.path = Append(@, price)]
        /\ CalledTick(p, [evaluated |-> TRUE, st |-> trail[p], current |-> price,
                          buy_real |-> 1000, decision |-> r.decision])
        /\ UNCHANGED <<acciones, meta, history, monitor_state, FIRST_REAL_BUY, DRY_RUN, w3s, tokens,
                       quoted, result, effects, threads, partial, token_balance, fills>>

InitTicks ==
    /\ orch = [pc |-> "ticks", path |-> <<>>]
    /\ trail = [p \in Pairs |-> NoFloatTrail]
    /\ threads = [p \in Pairs |-> NoThread]
    /\ partial = [p \in Pairs |-> NoPartial]
    /\ token_balance = [p \in Pairs |-> 0]
    /\ fills = <<>>
    /\ acciones = {}
    /\ tokens = Pairs
    /\ quoted = NoQuote
    /\ w3s = NoClient
    /\ history = <<>>
    /\ monitor_state = [p \in Pairs |-> NoSnapshot]
    /\ result = NoResult
    /\ effects = {}
    /\ lastOp = NoOp
    /\ meta = FALSE
    /\ FIRST_REAL_BUY = FALSE
    /\ DRY_RUN = TRUE

NextTicks == \E price \in FloatTicks : FloatTick("p1", price)

SpecTicks == InitTicks /\ [][NextTicks]_vars

\* C28: bought at 1.0 with a stop loss of 7 percent, a tick at 0.92 yields
\* SELL / STOP_LOSS and a tick at 0.93 does not yield STOP_LOSS
C28_StopLossBoundary ==
    (orch.pc = "ticks" /\ lastOp.op = "tick" /\ STOP_LOSS_PCT = 7) =>
        /\ lastOp.tick.current = 920 => lastOp.tick.decision = Decision("SELL", "STOP_LOSS")
        /\ lastOp.tick.current = 930 => lastOp.tick.decision.reason # "STOP_LOSS"

\* the tick at 0.93 was evaluated against the floor and held
C28_Witness ==
    /\ orch.pc = "ticks" /\ orch.path = <<930>>
    /\ lastOp.tick.current = 930 /\ lastOp.tick.decision.action = "HOLD"
    /\ float_lt(trail["p1"].stop_loss, Float(930, 1000))

\* C29 as stated: bought at 1.0 with take profit 5 and gap 3, on the path
\* 1.00, 1.06, 1.10, 1.07 trailing arms at 1.06, the tick 1.10 sets peak 1.10
\* and trailing_stop 1.067, and the tick 1.07 yields SELL / TRAILING_HIT
C29_PathEndsInTrailingHit ==
    (orch.pc = "ticks" /\ TAKE_PROFIT_PCT = 5 /\ TRAILING_GAP_PCT = 3) =>
        /\ orch.path = <<1000, 1060>> =>
              lastOp.tick.decision.reason = "ARMED_TRAILING" /\ trail["p1"].armed
        /\ orch.path = <<1000, 1060, 1100>> =>
              trail["p1"].peak = Float(1100, 1000) /\ trail["p1"].trailing_stop = Float(1067, 1000)
        /\ orch.path = <<1000, 1060, 1100, 1070>> =>
              lastOp.tick.decision = Decision("SELL", "TRAILING_HIT")

\* C29 amended: on that path trailing arms at 1.06 (HOLD), the tick 1.10 is a
\* new peak with trailing_stop 1.067, and the tick 1.07, being above 1.067,
\* yields HOLD and changes nothing; a fourth tick at 1.067 or below (and above
\* the stop-loss floor) is the one that yields SELL / TRAILING_HIT
C29_PathHoldsAboveStop ==
    (orch.pc = "ticks" /\ TAKE_PROFIT_PCT = 5 /\ TRAILING_GAP_PCT = 3) =>
        /\ orch.path = <<1000>> =>
              lastOp.tick.decision = Decision("HOLD", "NONE") /\ ~trail["p1"].armed
        /\ orch.path = <<1000, 1060>> =>
              /\ lastOp.tick.decision = Decision("HOLD", "ARMED_TRAILING")
              /\ trail["p1"].armed /\ trail["p1"].peak = Float(1060, 1000)
        /\ orch.path = <<1000, 1060, 1100>> =>
              /\ lastOp.tick.decision = Decision("HOLD", "NEW_PEAK")
              /\ trail["p1"].peak = Float(1100, 1000)
              /\ trail["p1"].trailing_stop = Float(1067, 1000)
        /\ orch.path = <<1000, 1060, 1100, 1070>> =>
              /\ lastOp.tick.decision = Decision("HOLD", "NONE")
              /\ trail["p1"] = lastOp.tick.st
        /\ \A price \in {1067, 1060, 1000} : orch.path = <<1000, 1060, 1100, price>> =>
              /\ lastOp.tick.decision = Decision("SELL", "TRAILING_HIT")
              /\ trail["p1"] = lastOp.tick.st

\* the whole path has been evaluated and the last tick held
C29_Witness ==
    /\ orch.pc = "ticks" /\ orch.path = <<1000, 1060, 1100, 1070>>
    /\ lastOp.tick.decision.action = "HOLD" /\ trail["p1"].armed
    /\ float_lt(trail["p1"].trailing_stop, Float(1070, 1000))

\* C30: for any price sequence, while a pair's position stays the watched one
\* and its trailing is armed, no step lowers trailing_stop - the re-arm after
\* the first partial sale included, whatever triggered that sale
C30_TrailingStopNeverLoosens ==
    [][\A p \in Pairs :
          (/\ trail[p].armed /\ trail'[p].armed
           /\ get_history_id(monitor_state, p) # None
           /\ get_history_id(monitor_state', p) = get_history_id(monitor_state, p))
             => trail'[p].trailing_stop >= trail[p].trailing_stop]_vars

(***************************************************************************)
(* C31: a sell signal below the floors                                     *)
(***************************************************************************)
\* balance <= 0, or the stage quantity below MIN_SELL_TOKENS, or its value
\* below MIN_SELL_VALUE_BNB
BelowSellFloor(p) ==
    LET percent == IF partial[p].stage = 0 THEN SELL_PERCENT_1 ELSE SELL_PERCENT_2
        amount == (token_balance[p] * percent) \div 100
    IN  \/ token_balance[p] <= 0
        \/ amount < MIN_SELL_TOKENS
        \/ amount * threads[p].current < MIN_SELL_VALUE_BNB

FreshRuntimeState(p, st, acc) ==
    LET h == get_by_id(history, get_history_id(monitor_state, p))
    IN  /\ acc = NewPartial
        /\ \/ st = NoTrail
           \/ buy_is_recorded(h) /\ st = init_trailing(h.buy_real_price)

\* C32: whenever a worker starts for a pair with an open entry, the exit
\* runtime state it will use is the fresh one: unarmed, peak = buy_real,
\* stop_loss and trailing_stop derived from buy_real, partial stage 0 and
\* cumulative totals 0; nothing an earlier worker or cycle left is reused.
C32_WorkerStartsFresh ==
    [][\A p \in Pairs :
          (/\ ~threads[p].alive /\ threads'[p].alive
           /\ get_history_id(monitor_state, p) # None)
          => FreshRuntimeState(p, trail'[p], partial'[p])]_vars

(***************************************************************************)
(* C33: a receipt wait that times out after the sale was broadcast         *)
(***************************************************************************)
\* the units a sale step took out of the wallet
UnitsSent(p) == token_balance[p] - token_balance'[p]

\* C33: a sale that was broadcast is never lost to the totals, whether its
\* receipt arrived or the wait for it timed out: the step that sent it adds
\* its units to the cumulative sold units, or, when it closes the entry, the
\* entry's sell_amount is the units of all the sales sent.  (The claim's other
\* half, that the timeout is told apart from a failed sale and the stage is
\* not sold again meanwhile, rests on the same record of the sale.)
C33_TimedOutSaleStaysAccounted ==
    [][\A p \in Pairs :
          (/\ threads[p].alive /\ threads[p].pc = "sell"
           /\ lastOp'.op = "sell_sent" /\ lastOp'.pair = p)
          => IF partial'[p] = NoPartial
             THEN get_by_id(history', threads[p].hid).sell_amount
                     = partial[p].sold_tokens + UnitsSent(p)
             ELSE partial'[p].sold_tokens = partial[p].sold_tokens + UnitsSent(p)]_vars

(***************************************************************************)
(* SpecOutage: the buy pipeline and the worker of one pair while the chain *)
(* may fail any call: quotes that come back unusable, builds that raise,   *)
(* receipt waits that raise, sales that fail before or after the send.     *)
(***************************************************************************)
NextOutage ==
    \/ \E p \in Watched : ControllerRegistrar(p, "compra")
    \/ \E p \in Watched : handle_comprar(p)
    \/ \E p \in Watched, i \in ConfirmInputs :
          propose_buy(p, i.quote, i.tx, i.price_native, 1000)
    \/ \E p \in Watched, i \in ConfirmInputs :
          confirm_pending_buy(p, i.quote, i.tx, i.price_native)
    \/ \E p \in Watched, o \in ReceiptOutcomes, b \in BuyRealPrices, a \in BuyAmounts :
          await_and_record_buy_receipt(p, o, b, a)
    \/ \E p \in Watched : start_thread_for_pair(p)
    \/ \E p \in Watched, price \in TickPrices : WorkerTick(p, price)
    \/ \E p \in Watched, o \in SellOutcomes : WorkerSell(p, o)

SpecOutage == Init /\ [][NextOutage]_vars

\* the answers of the chain in which a call of the attempt failed for good:
\* the quote (get_amounts_out gives zeros) or the build (it raises)
ChainFailedInputs == {i \in ConfirmInputs : i.quote <= 0 \/ ~i.tx.built}

\* the sales in which a chain call failed for good
ChainFailedSales == {"prepare_fails", "raises_before_send", "raises_after_send"}

LedgersUnchanged == UNCHANGED <<acciones, history, monitor_state>>

C35_NoTransferRecordsNothing ==
    [][\A p \in Pairs, b \in BuyRealPrices, a \in BuyAmounts :
          await_and_record_buy_receipt(p, "no_transfer", b, a)
          => /\ result'.returned /\ ~result'.ok
             /\ result'.reason # NULL /\ result'.raised = NULL
             /\ history' = history
             /\ meta' = meta]_vars

\* with the fuse enabled, not yet tripped, and dry-run off, a receipt without
\* the transfer was handled for a pair whose linked entry awaits its real buy
C35_Witness ==
    /\ lastOp.op = "await_and_record_buy_receipt" /\ lastOp.pair = "p1"
    /\ result.reason = "Transfer no encontrado"
    /\ FIRST_REAL_BUY /\ ~DRY_RUN /\ ~meta
    /\ get_history_id(monitor_state, "p1") # None
    /\ get_by_id(history, get_history_id(monitor_state, "p1")).buy_real_price = None
    /\ get_by_id(history, get_history_id(monitor_state, "p1")).buy_amount = None

(***************************************************************************)
(* SpecSwap: build_swap_exact_eth_for_tokens called by any caller, with    *)
(* any minimum-out, on a client of any gas mode, in a dry run or not,      *)
(* against a node that answers in any way.  The client keeps the last      *)
(* call: its arguments, the node's answers, the estimations asked and the  *)
(* transaction returned (NoBuiltTx when the builder raised).               *)
(***************************************************************************)
\* the minimum-out a caller passes: propose_buy and confirm_pending_buy pass
\* what get_amount_out_min gave, having returned before when it is not positive
AmountOutMins == {950, 1900}

NoAnswers ==
    [count |-> Fails, latest |-> Fails, gas_price |-> Fails, max_priority |-> Fails,
     estimate |-> Fails, estimate_relaxed |-> Fails]

InitSwap ==
    /\ w3s \in {[pc |-> "swap", gas_mode |-> detect_gas_mode(g, l), GAS_PRICE_WEI_OVERRIDE |-> o,
                 called |-> FALSE, account |-> FALSE, pool |-> FALSE, amount_out_min |-> None,
                 a |-> NoAnswers, estimations |-> <<>>, tx |-> NoBuiltTx] :
                    g \in GasModeSettings, l \in LatestAnswers, o \in {0, 60}}
    /\ acciones = {}
    /\ tokens = Pairs
    /\ quoted = NoQuote
    /\ orch = NoOrch
    /\ history = <<>>
    /\ monitor_state = [p \in Pairs |-> NoSnapshot]
    /\ result = NoResult
    /\ effects = {}
    /\ lastOp = NoOp
    /\ InitWorkers
    /\ meta = FALSE
    /\ FIRST_REAL_BUY = FALSE
    /\ DRY_RUN \in BOOLEAN

\* a call of build_swap_exact_eth_for_tokens(amount_in_wei, amount_out_min, token)
BuildSwap(account, pool, amount_out_min, raw, a) ==
    LET swap == [raw EXCEPT !.amount_out_min = amount_out_min]
        tx == apply_gas_fields([swap EXCEPT !.nonce = a.count.value], w3s.gas_mode,
                               w3s.GAS_PRICE_WEI_OVERRIDE, a.latest, a.gas_price,
                               a.max_priority)
        estimating == account /\ pool /\ a.count.ok /\ tx.built
    IN  /\ w3s.pc = "swap"
        /\ w3s' = [w3s EXCEPT !.called = TRUE, !.account = account, !.pool = pool,
                              !.amount_out_min = amount_out_min, !.a = a,
                              !.estimations = IF estimating
                                              THEN swap_estimations(DRY_RUN, a) ELSE <<>>,
                              !.tx = build_swap_exact_eth_for_tokens(account, pool, swap,
                                                                     w3s, DRY_RUN, a)]
        /\ Called("build_swap_exact_eth_for_tokens", NULL, NULL)
        /\ UNCHANGED <<acciones, meta, history, monitor_state, FIRST_REAL_BUY, DRY_RUN, tokens,
                       quoted, orch, result, effects, workerVars>>

\* what build_transaction returns for the swap before the gas strategy runs,
\* with or without the 1559 fee fields filled in by web3
RawSwaps == {raw \in RawTxs : raw.gasPrice = None}

NextSwap ==
    \E account \in BOOLEAN, pool \in BOOLEAN, m \in AmountOutMins, raw \in RawSwaps,
       a \in NodeAnswers :
        BuildSwap(account, pool, m, raw, a)

SpecSwap == InitSwap /\ [][NextSwap]_vars

\* the relaxed estimation is asked at most once, and only after the strict one
\* was asked and failed
RelaxedOnceAfterStrict ==
    /\ Cardinality({k \in DOMAIN w3s.estimations :
                       w3s.estimations[k] = "estimate_gas_relaxed"}) <= 1
    /\ \A k \in DOMAIN w3s.estimations :
          w3s.estimations[k] = "estimate_gas_relaxed"
          => /\ k > 1 /\ w3s.estimations[k - 1] = "estimate_gas"
             /\ ~w3s.a.estimate.ok

\* the estimate the limit is computed from
UsedEstimate == IF w3s.a.estimate.ok THEN w3s.a.estimate ELSE w3s.a.estimate_relaxed

EstimatedLimit == (UsedEstimate.value * GAS_LIMIT_MULTIPLIER) \div 100

\* when the relaxed estimation was asked and failed, nothing is returned
RelaxedFailurePropagates ==
    ("estimate_gas_relaxed" \in {w3s.estimations[k] : k \in DOMAIN w3s.estimations}
       /\ ~w3s.a.estimate_relaxed.ok)
    => ~w3s.tx.built

\* C36 as claimed: the relaxed estimation is attempted at most once and only
\* after the strict one failed; the transaction returned always carries the
\* caller's amount_out_min, with gas = estimate x the safety multiplier; when
\* the relaxed estimation fails too, no transaction is returned.
C36_EveryLimitIsEstimated ==
    (w3s.pc = "swap" /\ w3s.called) =>
        /\ RelaxedOnceAfterStrict
        /\ w3s.tx.built => /\ w3s.tx.amount_out_min = w3s.amount_out_min
                           /\ UsedEstimate.ok /\ w3s.tx.gas = EstimatedLimit
        /\ RelaxedFailurePropagates

\* C36: the relaxed estimation is attempted at most once and only after the
\* strict one failed; the transaction returned always carries the caller's
\* amount_out_min; its gas is estimate x the safety multiplier, except in a dry
\* run that skips the estimation, where no estimation is asked and the gas is
\* DEFAULT_SWAP_GAS_LIMIT; when the relaxed estimation fails too, no
\* transaction is returned.
C36_RelaxedEstimateOnlySetsLimit ==
    (w3s.pc = "swap" /\ w3s.called) =>
        /\ RelaxedOnceAfterStrict
        /\ w3s.tx.built =>
              /\ w3s.tx.amount_out_min = w3s.amount_out_min
              /\ IF DRY_RUN /\ SKIP_GAS_EST_IN_DRY
                 THEN w3s.estimations = <<>> /\ w3s.tx.gas = DEFAULT_SWAP_GAS_LIMIT
                 ELSE UsedEstimate.ok /\ w3s.tx.gas = EstimatedLimit
        /\ RelaxedFailurePropagates

\* outside a dry run the strict estimation failed, the relaxed one answered,
\* and the transaction returned has the caller's minimum-out and the limit
\* of the relaxed estimate
C36_Witness ==
    /\ w3s.pc = "swap" /\ w3s.called /\ ~DRY_RUN
    /\ w3s.estimations = <<"estimate_gas", "estimate_gas_relaxed">>
    /\ ~w3s.a.estimate.ok /\ w3s.a.estimate_relaxed.ok
    /\ w3s.tx.built
    /\ w3s.amount_out_min = 950 /\ w3s.tx.amount_out_min = 950
    /\ w3s.tx.gas = 240

(***************************************************************************)
(* SpecCycles: the Trade Ledger over more than one purchase.  Buys of both *)
(* pairs are proposed and confirmed, receipts are recorded and positions   *)
(* are closed through the controller, in any order, with the fuse enabled  *)
(* or not, outside a dry run.                                              *)
(***************************************************************************)
\* the answers of the chain to a buy attempt here: no usable quote, or a
\* quote, a transaction and a price that keep the buy within parameters
CycleInputs == {i \in ConfirmInputs : i.quote <= 0 \/ i.tx = TxWithin}

InitCycles ==
    /\ acciones = {}
    /\ tokens = Pairs
    /\ quoted = NoQuote
    /\ w3s = NoClient
    /\ orch = [pc |-> "cycles"]
    /\ history = <<>>
    /\ monitor_state = [p \in Pairs |-> NoSnapshot]
    /\ result = NoResult
    /\ effects = {}
    /\ lastOp = NoOp
    /\ InitWorkers
    /\ meta = FALSE
    /\ FIRST_REAL_BUY \in BOOLEAN
    /\ DRY_RUN = FALSE

NextCycles ==
    \/ \E p \in Pairs : ControllerRegistrar(p, "compra")
    \/ \E p \in Pairs : handle_comprar(p)
    \/ \E p \in Pairs, i \in CycleInputs : propose_buy(p, i.quote, i.tx, i.price_native, 1000)
    \/ \E p \in Pairs, i \in CycleInputs : confirm_pending_buy(p, i.quote, i.tx, i.price_native)
    \/ \E p \in Pairs, b \in BuyRealPrices, a \in BuyAmounts : record_buy_receipt(p, b, a)
    \/ \E p \in Pairs, o \in ReceiptOutcomes, b \in BuyRealPrices, a \in BuyAmounts :
          await_and_record_buy_receipt(p, o, b, a)
    \/ \E p \in Pairs, s \in ClosePrices, a \in BuyAmounts, b \in CloseBnbs :
          controller_finalize_sell(p, s, a, b)

SpecCycles == InitCycles /\ [][NextCycles]_vars

(***************************************************************************)
(* C37: the fuse as an at-most-once guard                                  *)
(***************************************************************************)
\* the entries that have received real buy data
WithRealBuy == {i \in DOMAIN history : history[i].buy_real_price # None}

\* C37: with the fuse enabled and dry-run off, at most one purchase is ever
\* opened for real execution: at most one Trade Ledger entry is created after
\* start-up (the ledger starts empty), and at most one ever receives real buy
\* data.
C37_FuseAdmitsOnePurchase ==
    (FIRST_REAL_BUY /\ ~DRY_RUN) =>
        /\ Len(history) <= 1
        /\ Cardinality(WithRealBuy) <= 1

(***************************************************************************)
(* C38: one open entry per pair                                            *)
(***************************************************************************)
\* the open entries of a pair: those whose sell fields are null
OpenEntries(p) ==
    {i \in DOMAIN history : history[i].pair_address = p /\ ~IsClosed(history[i])}

\* C38: at any time each pair has at most one open Trade Ledger entry, and an
\* open entry is the one its pair's Position Snapshot links to: no buy opens
\* a second entry over a linked open one, so none is orphaned by the link
\* being overwritten.
C38_OneOpenEntryPerPair ==
    \A p \in Pairs :
        /\ Cardinality(OpenEntries(p)) <= 1
        /\ \A i \in OpenEntries(p) : get_history_id(monitor_state, p) = i

(***************************************************************************)
(* C39: the link of the Position Snapshot                                  *)
(***************************************************************************)
\* the link of every pair is null or names an existing, open entry of the pair
LinksPointToOpenEntries ==
    \A p \in Pairs :
        LET hid == get_history_id(monitor_state, p)
        IN  hid # None => /\ hid \in DOMAIN history
                          /\ history[hid].pair_address = p
                          /\ ~IsClosed(history[hid])

Payouts == {100, 250}

SaleGasCosts == {5}

ApproveGasCosts == {3}

IdleSale == [pc |-> "idle", approve |-> "none", pre_wei |-> None, paid |-> None,
             gas_cost_wei |-> None, bnb_bruto_recibido |-> None]

BalanceStep(op, pair) ==
    /\ Called(op, pair, NULL)
    /\ UNCHANGED <<acciones, meta, history, monitor_state, FIRST_REAL_BUY, DRY_RUN, orch, tokens,
                   quoted, result, effects, workerVars>>

\* _monitor_worker after prepare_sell: the approve, if any, is sent and not
\* waited for
BeginSale(p, short) ==
    /\ w3s.pc = "balance" /\ w3s.sales[p].pc = "idle"
    /\ w3s' = [w3s EXCEPT !.sales[p].pc = "prepared",
                          !.sales[p].approve = IF short THEN "sent" ELSE "none"]
    /\ BalanceStep("sign_and_send", p)

\* pre_wei = self.w3s.wei_balance()
BalanceBefore(p) ==
    /\ w3s.pc = "balance" /\ w3s.sales[p].pc = "prepared"
    /\ w3s' = [w3s EXCEPT !.sales[p].pc = "snapped", !.sales[p].pre_wei = w3s.wallet]
    /\ BalanceStep("wei_balance", p)

\* tx_hash = self.w3s.sign_and_send(sell_tx)
BroadcastSale(p) ==
    /\ w3s.pc = "balance" /\ w3s.sales[p].pc = "snapped"
    /\ w3s' = [w3s EXCEPT !.sales[p].pc = "sent"]
    /\ BalanceStep("send_sell_and_measure", p)

\* the chain mines the approve of a sale, which comes before the sale in the
\* account's nonce order: the wallet pays its gas
ApproveMined(p, gas_cost) ==
    /\ w3s.pc = "balance" /\ w3s.sales[p].approve = "sent"
    /\ w3s.sales[p].pc \in {"prepared", "snapped", "sent"}
    /\ w3s' = [w3s EXCEPT !.sales[p].approve = "mined", !.wallet = @ - gas_cost]
    /\ BalanceStep("mined", p)

\* the chain mines a sale: the wallet receives what the swap pays and pays
\* the gas; wait_for_receipt and get_transaction give the gas cost
SaleMined(p, paid, gas_cost) ==
    /\ w3s.pc = "balance" /\ w3s.sales[p].pc = "sent" /\ w3s.sales[p].approve # "sent"
    /\ w3s' = [w3s EXCEPT !.sales[p].pc = "mined", !.sales[p].paid = paid,
                          !.sales[p].gas_cost_wei = gas_cost,
                          !.wallet = @ + paid - gas_cost]
    /\ BalanceStep("mined", p)

\* delta_net_wei = post_wei - pre_wei; bnb_bruto_recibido = bnb_net + bnb_gas
bnb_bruto_recibido(pre_wei, post_wei, gas_cost_wei) ==
    (post_wei - pre_wei) + gas_cost_wei

\* post_wei = self.w3s.wei_balance(), and the measure returned
BalanceAfter(p) ==
    /\ w3s.pc = "balance" /\ w3s.sales[p].pc = "mined"
    /\ w3s' = [w3s EXCEPT !.sales[p].pc = "measured",
                          !.sales[p].bnb_bruto_recibido =
                              bnb_bruto_recibido(w3s.sales[p].pre_wei, w3s.wallet,
                                                 w3s.sales[p].gas_cost_wei)]
    /\ BalanceStep("send_sell_and_measure", p)

InitBalance ==
    /\ w3s = [pc |-> "balance", wallet |-> 1000, sales |-> [p \in Pairs |-> IdleSale]]
    /\ acciones = {}
    /\ tokens = Pairs
    /\ quoted = NoQuote
    /\ orch = NoOrch
    /\ history = <<>>
    /\ monitor_state = [p \in Pairs |-> NoSnapshot]
    /\ result = NoResult
    /\ effects = {}
    /\ lastOp = NoOp
    /\ InitWorkers
    /\ meta = FALSE
    /\ FIRST_REAL_BUY = FALSE
    /\ DRY_RUN = FALSE

NextBalance ==
    \/ \E p \in Pairs, short \in BOOLEAN : BeginSale(p, short)
    \/ \E p \in Pairs : BalanceBefore(p)
    \/ \E p \in Pairs : BroadcastSale(p)
    \/ \E p \in Pairs, g \in ApproveGasCosts : ApproveMined(p, g)
    \/ \E p \in Pairs, paid \in Payouts, g \in SaleGasCosts : SaleMined(p, paid, g)
    \/ \E p \in Pairs : BalanceAfter(p)

SpecBalance == InitBalance /\ [][NextBalance]_vars

\* C40: the gross native amount send_sell_and_measure attributes to a sale
\* (balance after - balance before + gas cost) is the amount that sale's
\* transaction paid out, whatever other transactions of the wallet were
\* mined between the two snapshots.
C40_MeasuredIsPaidOut ==
    w3s.pc = "balance" =>
        \A p \in Pairs :
            w3s.sales[p].pc = "measured"
            => w3s.sales[p].bnb_bruto_recibido = w3s.sales[p].paid

====
